---- MODULE Spec2Model ----
(***************************************************************************)
(* A model of the primalscheme3 / primal_digest multiplex-PCR scheme       *)
(* designer: the MatchDB lookups, the mispriming detector, the primer-pair *)
(* generator and the pool-assigning Scheme solver.                         *)
(*                                                                         *)
(* Oligo strings are sequences of one-character strings.  A PrimerPair is  *)
(* a record; the fields pool, msa_index and amplicon_number are the        *)
(* attributes the solver writes when it places the pair.                   *)
(***************************************************************************)
EXTENDS Integers, Sequences, FiniteSets, TLC

VARIABLES
    cfg,            \* the configuration dict carried into every call
    db,             \* MatchDB contents: a set of <<kmer, msa_index, position>>
    dimers,         \* the dimer oracle: the set of interacting {oligo, oligo}
    msas,           \* per MSA: [msa_index, fkmers, rkmers, primerpairs]
    pools,          \* Scheme._pools
    matches,        \* Scheme._matches
    current_pool,   \* Scheme._current_pool
    last_pp_added,  \* Scheme._last_pp_added
    cur,            \* index of the MSA being tiled (-1 before the first)
    phase,          \* "START" | "PLACED" | "TERMINAL" | "RAISED"; "CALL" | "DONE"
    ret,            \* outcome of the last solver operation
    pre,            \* Scheme state immediately before the last operation
    call,           \* arguments of the last pure-function call
    out             \* its result

vars == <<cfg, db, dimers, msas, pools, matches, current_pool, last_pp_added,
          cur, phase, ret, pre, call, out>>

----------------------------------------------------------------------------
(* Bounds of the model                                                     *)

MaxPools == 2         \* n_pools ranges over 1..MaxPools
MaxDbEntries == 2     \* MatchDB entries of the solver runs
MaxPos == 2           \* MatchDB positions of the lookup checks: 0..MaxPos
MaxMatches == 2       \* size of a match set handed to the detector

----------------------------------------------------------------------------
(* Sequence utilities                                                      *)

Min(S) == CHOOSE x \in S : \A y \in S : x <= y
Max(S) == CHOOSE x \in S : \A y \in S : x >= y

RECURSIVE SeqSum(_)
SeqSum(s) == IF s = <<>> THEN 0 ELSE Head(s) + SeqSum(Tail(s))

Last(s) == s[Len(s)]
Front(s) == SubSeq(s, 1, Len(s) - 1)

Reverse(s) == [i \in 1..Len(s) |-> s[Len(s) + 1 - i]]

\* AMBIGUOUS_DNA_COMPLEMENT restricted to the concrete bases of a primer
Complement(b) ==
    CASE b = "A" -> "T"
      [] b = "C" -> "G"
      [] b = "G" -> "C"
      [] b = "T" -> "A"
      [] OTHER -> b

reverse_complement(s) == Reverse([i \in 1..Len(s) |-> Complement(s[i])])

\* Python x[-k:]
Suffix(x, k) == IF Len(x) <= k THEN x ELSE SubSeq(x, Len(x) - k + 1, Len(x))
\* Python x[:k]
Prefix(x, k) == IF Len(x) <= k THEN x ELSE SubSeq(x, 1, k)

MUTATIONS(b) ==
    CASE b = "A" -> {"C", "G", "T"}
      [] b = "C" -> {"A", "G", "T"}
      [] b = "G" -> {"C", "A", "T"}
      [] b = "T" -> {"C", "G", "A"}

generate_single_mismatches(base_seq) ==
    {base_seq} \cup
    { [base_seq EXCEPT ![i] = alt] :
        <<i, alt>> \in { <<j, a>> \in (1..Len(base_seq)) \X {"A", "C", "G", "T"} :
                            a \in MUTATIONS(base_seq[j]) } }

----------------------------------------------------------------------------
(* MatchDB                                                                 *)

read_matches(d, sequence) == { <<e[2], e[3]>> : e \in { x \in d : x[1] = sequence } }

find_match_plus_only(d, sequence) ==
    { <<m[1], m[2], "+">> : m \in read_matches(d, sequence) }

find_match(d, sequence) ==
    { <<m[1], m[2], "+">> : m \in read_matches(d, sequence) } \cup
    { <<m[1], m[2], "-">> : m \in read_matches(d, reverse_complement(sequence)) }

find_matches(d, seqs, fuzzy) ==
    LET search_seqs == IF fuzzy
                       THEN UNION { generate_single_mismatches(s) : s \in seqs }
                       ELSE seqs
    IN  UNION { find_match(d, st) : st \in search_seqs }

find_fkmer(d, fkmer, fuzzy, kmersize, msaindex, remove_expected) ==
    LET kmer_seqs == { Suffix(x, kmersize) : x \in fkmer.seqs }
        ms == find_matches(d, kmer_seqs, fuzzy)
    IN  IF remove_expected
        THEN { match \in ms : match[2] # fkmer.end - kmersize /\ match[1] = msaindex }
        ELSE ms

find_rkmer(d, rkmer, fuzzy, kmersize, msaindex, remove_expected) ==
    LET kmer_seqs == { Prefix(x, kmersize) : x \in rkmer.seqs }
        ms == find_matches(d, kmer_seqs, fuzzy)
    IN  IF remove_expected
        THEN { match \in ms : match[2] # rkmer.start /\ match[1] = msaindex }
        ELSE ms

----------------------------------------------------------------------------
(* Mispriming detector                                                     *)

\* variant: a product of exactly product_size is reported as well
detect_new_products_inclusive(new_matches, old_matches, product_size) ==
    \E f \in new_matches \cup old_matches, r \in new_matches \cup old_matches :
        /\ f[3] = "+" /\ r[3] = "-"
        /\ (f \in new_matches /\ r \in old_matches) \/ (r \in new_matches /\ f \in old_matches)
        /\ f[1] = r[1]
        /\ 0 < r[2] - f[2]
        /\ r[2] - f[2] <= product_size

detect_new_products(new_matches, old_matches, product_size) ==
    LET fmatches == { m \in new_matches : m[3] = "+" }
        rmatches == { m \in new_matches : m[3] = "-" }
        old_fmatches == { m \in old_matches : m[3] = "+" }
        old_rmatches == { m \in old_matches : m[3] = "-" }
    IN  \/ \E fmatch \in fmatches, old_rmatch \in old_rmatches :
              /\ fmatch[1] = old_rmatch[1]
              /\ 0 < old_rmatch[2] - fmatch[2]
              /\ old_rmatch[2] - fmatch[2] < product_size
        \/ \E rmatch \in rmatches, old_fmatch \in old_fmatches :
              /\ rmatch[1] = old_fmatch[1]
              /\ 0 < rmatch[2] - old_fmatch[2]
              /\ rmatch[2] - old_fmatch[2] < product_size

----------------------------------------------------------------------------
(* FKmer, RKmer, PrimerPair                                                *)

FKmer(end, seqs) == [end |-> end, seqs |-> seqs]
RKmer(start, seqs) == [start |-> start, seqs |-> seqs]

starts(fkmer) == { fkmer.end - Len(x) : x \in fkmer.seqs }
ends(rkmer) == { Len(x) + rkmer.start : x \in rkmer.seqs }

\* origin tells the objects built by try_circular from those of the pair list
PrimerPair(fprimer, rprimer, msa_index, origin) ==
    [fprimer |-> fprimer, rprimer |-> rprimer, msa_index |-> msa_index,
     amplicon_number |-> -1, pool |-> -1, origin |-> origin]

\* object identity of two PrimerPair objects (PrimerPair defines no __eq__)
SameObject(a, b) ==
    /\ a.origin = b.origin
    /\ a.fprimer = b.fprimer
    /\ a.rprimer = b.rprimer
    /\ a.msa_index = b.msa_index

pp_start(pp) == Min(starts(pp.fprimer))
pp_end(pp) == Max(ends(pp.rprimer))

\* all_seqs() is a list: its length counts both kmers' oligos
all_seqs(pp) == pp.fprimer.seqs \cup pp.rprimer.seqs
n_all_seqs(pp) == Cardinality(pp.fprimer.seqs) + Cardinality(pp.rprimer.seqs)

\* the thermodynamic primitive: true iff some oligo of A and some oligo of B
\* form a duplex at or below the score threshold
do_pools_interact_py(A, B) == \E a \in A, b \in B : {a, b} \in dimers

inter_free(pp) == do_pools_interact_py(pp.fprimer.seqs, pp.rprimer.seqs)

pp_find_matches(pp, remove_expected) ==
    find_fkmer(db, pp.fprimer, cfg.mismatch_fuzzy, cfg.mismatch_kmersize,
               pp.msa_index, remove_expected)
    \cup
    find_rkmer(db, pp.rprimer, cfg.mismatch_fuzzy, cfg.mismatch_kmersize,
               pp.msa_index, remove_expected)

----------------------------------------------------------------------------
(* Ranking scores.  A score is kept as its integer ingredients [d, n] and  *)
(* compared exactly.                                                       *)

\* (dist_extend / amplicon_size_max) ** 2 / sqrt(pp_n_p)
ol_pp_score(pp_r_start, pp_n_p, leading_edge) ==
    [d |-> pp_r_start - cfg.min_overlap - leading_edge, n |-> pp_n_p]

bt_ol_pp_score(pp_r_start, pp_n_p, leading_edge) ==
    [d |-> pp_r_start - cfg.min_overlap - leading_edge, n |-> pp_n_p]

\* d1^2 / sqrt(n1) > d2^2 / sqrt(n2)
OlScoreGt(k1, k2) == k1.d * k1.d * k1.d * k1.d * k2.n > k2.d * k2.d * k2.d * k2.d * k1.n

\* (pp_f_end - leading_edge) * sqrt(pp_n_p)
walk_pp_score(pp_f_end, pp_n_p, leading_edge) ==
    [d |-> pp_f_end - leading_edge, n |-> pp_n_p]

SignedSquare(k) == IF k.d >= 0 THEN k.d * k.d * k.n ELSE 0 - (k.d * k.d * k.n)
WalkScoreGt(k1, k2) == SignedSquare(k1) > SignedSquare(k2)

\* key (fprimer.end, -rprimer.start), ascending
PairKeyBefore(a, b) ==
    \/ a.fprimer.end < b.fprimer.end
    \/ a.fprimer.end = b.fprimer.end /\ a.rprimer.start > b.rprimer.start

\* the comparison of two sort keys, by the kind of key
KeyGt(kind, k1, k2) ==
    CASE kind = "ol" -> OlScoreGt(k1, k2)
      [] kind = "walk" -> WalkScoreGt(k1, k2)
      [] kind = "pair" -> PairKeyBefore(k1, k2)
      [] OTHER -> k1 > k2

\* x goes before the first entry it beats: entries with an equal key stay ahead
RECURSIVE InsertDesc(_, _, _)
InsertDesc(kind, x, sorted) ==
    IF sorted = <<>> THEN <<x>>
    ELSE IF KeyGt(kind, x.key, Head(sorted).key) THEN <<x>> \o sorted
    ELSE <<Head(sorted)>> \o InsertDesc(kind, x, Tail(sorted))

RECURSIVE SortKeyed(_, _)
SortKeyed(kind, entries) ==
    IF entries = <<>> THEN <<>>
    ELSE InsertDesc(kind, Last(entries), SortKeyed(kind, Front(entries)))

\* list.sort(key=..., reverse=True): descending and stable
StableSortDesc(list, keys, kind) ==
    LET sorted == SortKeyed(kind, [i \in 1..Len(list) |-> [key |-> keys[i], item |-> list[i]]])
    IN  [i \in 1..Len(sorted) |-> sorted[i].item]

----------------------------------------------------------------------------
(* Scheme: a state is [pools, matches, current_pool, last_pp_added]        *)

SchemeInit(n_pools) ==
    [pools |-> [p \in 0..(n_pools - 1) |-> <<>>],
     matches |-> [p \in 0..(n_pools - 1) |-> {}],
     current_pool |-> 0,
     last_pp_added |-> <<>>]

Top(S) == S.last_pp_added[Len(S.last_pp_added)]

next_pool(current) == (current + 1) % cfg.npools

\* variant: the pair is popped from the pool the scheme points at
remove_last_primer_pair_current(S) ==
    LET last_pp == Top(S)
    IN  [pools |-> [S.pools EXCEPT ![S.current_pool] = Front(@)],
         matches |-> [S.matches EXCEPT
                        ![last_pp.pool] = @ \ pp_find_matches(last_pp, FALSE)],
         current_pool |-> last_pp.pool,
         last_pp_added |-> Front(S.last_pp_added)]

remove_last_primer_pair(S) ==
    LET last_pp == Top(S)
    IN  [pools |-> [S.pools EXCEPT ![last_pp.pool] = Front(@)],
         matches |-> [S.matches EXCEPT
                        ![last_pp.pool] = @ \ pp_find_matches(last_pp, FALSE)],
         current_pool |-> last_pp.pool,
         last_pp_added |-> Front(S.last_pp_added)]

\* variant: the pair lands in the pool after the one that was chosen
add_primer_pair_to_pool_shifted(S, primerpair, pool, msa_index) ==
    LET placed == [primerpair EXCEPT
                     !.pool = next_pool(pool),
                     !.msa_index = msa_index,
                     !.amplicon_number =
                        SeqSum([p \in 1..cfg.npools |->
                            Cardinality({ i \in 1..Len(S.pools[p - 1]) :
                                            S.pools[p - 1][i].msa_index = msa_index })])]
    IN  [pools |-> [S.pools EXCEPT ![next_pool(pool)] = Append(@, placed)],
         matches |-> [S.matches EXCEPT ![next_pool(pool)] = @ \cup pp_find_matches(placed, TRUE)],
         current_pool |-> next_pool(next_pool(pool)),
         last_pp_added |-> Append(S.last_pp_added, placed)]

add_primer_pair_to_pool(S, primerpair, pool, msa_index) ==
    LET placed == [primerpair EXCEPT
                     !.pool = pool,
                     !.msa_index = msa_index,
                     !.amplicon_number =
                        SeqSum([p \in 1..cfg.npools |->
                            Cardinality({ i \in 1..Len(S.pools[p - 1]) :
                                            S.pools[p - 1][i].msa_index = msa_index })])]
    IN  [pools |-> [S.pools EXCEPT ![pool] = Append(@, placed)],
         matches |-> [S.matches EXCEPT ![pool] = @ \cup pp_find_matches(placed, TRUE)],
         current_pool |-> next_pool(pool),
         last_pp_added |-> Append(S.last_pp_added, placed)]

\* all oligos of a pool (the index_to_seqs / pool_seqs_map entry of the pool)
PoolSeqs(S, pool_index) ==
    UNION { all_seqs(S.pools[pool_index][i]) : i \in 1..Len(S.pools[pool_index]) }

get_leading_coverage_edge(S) == Top(S).rprimer.start

\* the window query of find_ol_primerpairs
get_pp_window(all_pp_list, fp_end_min, fp_end_max, rp_start_min) ==
    LET Keep(pp) == /\ pp.fprimer.end > fp_end_min
                    /\ pp.fprimer.end <= fp_end_max
                    /\ pp_end(pp) >= rp_start_min
    IN  SelectSeq(all_pp_list, Keep)

\* variant: the window does not ask the leading edge to advance
find_ol_primerpairs_no_advance(S, all_pp_list, minoverlap) ==
    LET last_primer_pair == Top(S)
    IN  get_pp_window(all_pp_list,
                      last_primer_pair.fprimer.end,
                      last_primer_pair.rprimer.start - minoverlap,
                      0)

find_ol_primerpairs(S, all_pp_list, minoverlap) ==
    LET last_primer_pair == Top(S)
    IN  get_pp_window(all_pp_list,
                      last_primer_pair.fprimer.end,
                      last_primer_pair.rprimer.start - minoverlap,
                      Max(ends(last_primer_pair.rprimer)) + minoverlap)

\* the three guards of try_ol_primerpairs, try_backtrack and try_walk_primerpair
\* on a non-empty pool: clash with the pool's last pair, dimer, mispriming
\* variant: no clash guard
ClashesLast_never(S, pool_index, pp, msa_index) == FALSE

ClashesLast(S, pool_index, pp, msa_index) ==
    /\ Last(S.pools[pool_index]).msa_index = msa_index
    /\ Max(ends(Last(S.pools[pool_index]).rprimer)) >= Min(starts(pp.fprimer))

Misprimes(S, pool_index, pp) ==
    detect_new_products(pp_find_matches(pp, FALSE), S.matches[pool_index],
                        cfg.mismatch_product_size)

\* variant: no dimer guard
PoolAccepts_no_dimer_guard(S, pool_index, pp, msa_index) ==
    \/ S.pools[pool_index] = <<>>
    \/ /\ ~ClashesLast(S, pool_index, pp, msa_index)
       /\ ~Misprimes(S, pool_index, pp)

PoolAccepts(S, pool_index, pp, msa_index) ==
    \/ S.pools[pool_index] = <<>>
    \/ /\ ~ClashesLast(S, pool_index, pp, msa_index)
       /\ ~do_pools_interact_py(all_seqs(pp), PoolSeqs(S, pool_index))
       /\ ~Misprimes(S, pool_index, pp)

\* the first (pair, pool) of the nested for loops that passes, or none
FirstPlacement(S, cands, pos_pools_indexes, msa_index) ==
    LET ok(i, k) == PoolAccepts(S, pos_pools_indexes[k], cands[i], msa_index)
        fits == { i \in 1..Len(cands) : \E k \in 1..Len(pos_pools_indexes) : ok(i, k) }
    IN  IF fits = {} THEN [found |-> FALSE]
        ELSE LET i == Min(fits)
                 k == Min({ kk \in 1..Len(pos_pools_indexes) : ok(i, kk) })
             IN  [found |-> TRUE, pp |-> cands[i], pool |-> pos_pools_indexes[k]]

try_ol_primerpairs(S, all_pp_list, msa_index) ==
    LET last_pool == Top(S).pool
        pos_pools_indexes == [i \in 1..(cfg.npools - 1) |-> (last_pool + i) % cfg.npools]
        window == find_ol_primerpairs(S, all_pp_list, cfg.min_overlap)
        keys == [i \in 1..Len(window) |->
                    ol_pp_score(window[i].rprimer.start, n_all_seqs(window[i]),
                                get_leading_coverage_edge(S) - cfg.min_overlap)]
        pos_ol_pp == StableSortDesc(window, keys, "ol")
        hit == FirstPlacement(S, pos_ol_pp, pos_pools_indexes, msa_index)
    IN  IF hit.found
        THEN [s |-> add_primer_pair_to_pool(S, hit.pp, hit.pool, msa_index),
              ret |-> "ADDED_OL_PRIMERPAIR"]
        ELSE [s |-> S, ret |-> "NO_OL_PRIMERPAIR"]

\* the replacement loop of try_backtrack from candidate i on; index_to_seqs is
\* the oligo list of last_pp's pool taken once, after last_pp was removed
RECURSIVE BacktrackLoop(_, _, _, _, _, _, _)
BacktrackLoop(S, pos_ol_pp, i, last_pp, index_to_seqs, all_pp_list, msa_index) ==
    IF i > Len(pos_ol_pp)
    THEN [s |-> add_primer_pair_to_pool(S, last_pp, last_pp.pool, msa_index),
          ret |-> "NO_BACKTRACK"]
    ELSE
      LET ol_pp == pos_ol_pp[i]
          pool_index == last_pp.pool
      IN  IF S.pools[pool_index] = <<>>
          THEN [s |-> add_primer_pair_to_pool(S, ol_pp, pool_index, msa_index),
                ret |-> "ADDED_BACKTRACKED"]
          ELSE IF \/ ClashesLast(S, pool_index, ol_pp, msa_index)
                  \/ do_pools_interact_py(all_seqs(ol_pp), index_to_seqs)
                  \/ Misprimes(S, pool_index, ol_pp)
          THEN BacktrackLoop(S, pos_ol_pp, i + 1, last_pp, index_to_seqs,
                             all_pp_list, msa_index)
          ELSE
            LET added == add_primer_pair_to_pool(S, ol_pp, pool_index, msa_index)
                ol_result == try_ol_primerpairs(added, all_pp_list, msa_index)
            IN  IF ol_result.ret = "ADDED_OL_PRIMERPAIR"
                THEN [s |-> ol_result.s, ret |-> "ADDED_BACKTRACKED"]
                ELSE BacktrackLoop(remove_last_primer_pair(added), pos_ol_pp, i + 1,
                                   last_pp, index_to_seqs, all_pp_list, msa_index)

try_backtrack(S, all_pp_list, msa_index) ==
    LET last_pp == Top(S)
        removed == remove_last_primer_pair(S)
    IN  IF removed.last_pp_added = <<>>
        THEN \* find_ol_primerpairs indexes the empty stack: IndexError
             [s |-> removed, ret |-> "RAISED"]
        ELSE
          LET NotLast(pp) == ~SameObject(pp, last_pp)
              window == SelectSeq(find_ol_primerpairs(removed, all_pp_list, 1), NotLast)
              keys == [i \in 1..Len(window) |->
                          bt_ol_pp_score(window[i].rprimer.start, n_all_seqs(window[i]),
                                         get_leading_coverage_edge(removed) - 1)]
              pos_ol_pp == StableSortDesc(window, keys, "ol")
          IN  BacktrackLoop(removed, pos_ol_pp, 1, last_pp,
                            PoolSeqs(removed, last_pp.pool), all_pp_list, msa_index)

try_walk_primerpair(S, all_pp_list, msa_index) ==
    LET last_pool == Top(S).pool
        pos_pools_indexes == [i \in 1..cfg.npools |-> (last_pool + i - 1) % cfg.npools]
        walking_min == Top(S).rprimer.start - cfg.min_overlap
        firsts == { i \in 1..Len(all_pp_list) : all_pp_list[i].fprimer.end > walking_min }
        slice == IF firsts = {} THEN <<>>
                 ELSE SubSeq(all_pp_list, Min(firsts), Len(all_pp_list))
        keys == [i \in 1..Len(slice) |->
                    walk_pp_score(slice[i].fprimer.end, n_all_seqs(slice[i]),
                                  pp_end(Top(S)))]
        pos_walk_pp == StableSortDesc(slice, keys, "walk")
        hit == FirstPlacement(S, pos_walk_pp, pos_pools_indexes, msa_index)
    IN  IF hit.found
        THEN [s |-> add_primer_pair_to_pool(S, hit.pp, hit.pool, msa_index),
              ret |-> "ADDED_WALK_PRIMERPAIR"]
        ELSE [s |-> S, ret |-> "NO_WALK_PRIMERPAIR"]

add_first_primer_pair(S, primerpairs, msa_index) ==
    LET empties == { p \in 0..(cfg.npools - 1) : S.pools[p] = <<>> }
        ok(i, p) == /\ ~do_pools_interact_py(all_seqs(primerpairs[i]), PoolSeqs(S, p))
                    /\ ~Misprimes(S, p, primerpairs[i])
        fits == { i \in 1..Len(primerpairs) : \E p \in 0..(cfg.npools - 1) : ok(i, p) }
    IN  IF primerpairs = <<>> THEN [s |-> S, ret |-> "False"]
        ELSE IF empties # {}
        THEN [s |-> add_primer_pair_to_pool(S, primerpairs[1], Min(empties), msa_index),
              ret |-> "ADDED_FIRST_PRIMERPAIR"]
        ELSE IF fits # {}
        THEN LET i == Min(fits)
                 p == Min({ q \in 0..(cfg.npools - 1) : ok(i, q) })
             IN  [s |-> add_primer_pair_to_pool(S, primerpairs[i], p, msa_index),
                  ret |-> "ADDED_FIRST_PRIMERPAIR"]
        ELSE [s |-> S, ret |-> "NO_FIRST_PRIMERPAIR"]

----------------------------------------------------------------------------
(* try_circular.  The dimer pre-screen runs in a worker pool and its       *)
(* results come back in completion order (imap_unordered); they are zipped *)
(* with the candidates in list order.  mp_pp_bool is the sequence of       *)
(* results as it arrives: a rearrangement of the candidates' results.      *)

CircularWindow == 200

\* the subsets of 1..n with t members
RECURSIVE KSubsets(_, _)
KSubsets(n, t) ==
    IF t = 0 THEN {{}}
    ELSE IF n < t THEN {}
    ELSE KSubsets(n - 1, t) \cup { s \cup {n} : s \in KSubsets(n - 1, t - 1) }

\* every order in which the results of the workers can arrive
CompletionOrders(results) ==
    LET n == Len(results)
        t == Cardinality({ i \in 1..n : results[i] })
    IN  { [i \in 1..n |-> i \in T] : T \in KSubsets(n, t) }

circular_candidates(S, msa) ==
    LET first_pp == S.last_pp_added[1]
        last_pp == Top(S)
        IsPosF(fkmer) == /\ fkmer.end < last_pp.rprimer.start
                         /\ fkmer.end > last_pp.rprimer.start - CircularWindow
        IsPosR(rkmer) == /\ rkmer.start > first_pp.fprimer.end
                         /\ rkmer.start < first_pp.fprimer.end + CircularWindow
        pos_fkmers == SelectSeq(msa.fkmers, IsPosF)
        pos_rkmers == SelectSeq(msa.rkmers, IsPosR)
        nr == Len(pos_rkmers)
    IN  [i \in 1..(Len(pos_fkmers) * nr) |->
            PrimerPair(pos_fkmers[((i - 1) \div nr) + 1],
                       pos_rkmers[((i - 1) % nr) + 1], msa.msa_index, "circular")]

\* _mp_pp_inter_free on every candidate, in candidate order
prescreen(non_checked_pp) ==
    [i \in 1..Len(non_checked_pp) |-> inter_free(non_checked_pp[i])]

\* for bool, pp in zip(mp_pp_bool, non_checked_pp): if not bool: append(pp)
iter_free_primer_pairs(mp_pp_bool, non_checked_pp) ==
    LET n == Len(non_checked_pp)
        F[i \in 0..n] ==
            IF i = 0 THEN <<>>
            ELSE IF ~mp_pp_bool[i] THEN Append(F[i - 1], non_checked_pp[i])
            ELSE F[i - 1]
    IN  F[n]

try_circular(S, msa, mp_pp_bool) ==
    LET last_pool == Top(S).pool
        non_checked_pp == circular_candidates(S, msa)
        n == Len(non_checked_pp)
        iter_free == iter_free_primer_pairs(mp_pp_bool, non_checked_pp)
        keys == [i \in 1..Len(iter_free) |-> 0 - n_all_seqs(iter_free[i])]
        sorted == StableSortDesc(iter_free, keys, "int")
        pos_pools_indexes == [i \in 1..cfg.npools |-> (last_pool + i - 1) % cfg.npools]
        np == cfg.npools
        \* the nested loops, flattened: step j is candidate (j-1) \div np + 1 on
        \* pool number (j-1) % np + 1
        cand(j) == sorted[((j - 1) \div np) + 1]
        pool(j) == pos_pools_indexes[((j - 1) % np) + 1]
        raises(j) == S.pools[pool(j)] = <<>>
        accepts(j) ==
            /\ ~raises(j)
            /\ ~ClashesLast(S, pool(j), cand(j), msa.msa_index)
            /\ ~(/\ S.pools[pool(j)][1].msa_index = msa.msa_index
                 /\ Min(starts(S.pools[pool(j)][1].fprimer)) <= Max(ends(cand(j).rprimer)))
            /\ ~do_pools_interact_py(all_seqs(cand(j)), PoolSeqs(S, pool(j)))
        stops == { j \in 1..(Len(sorted) * np) : raises(j) \/ accepts(j) }
    IN  IF stops = {} THEN [s |-> S, ret |-> "NO_CIRCULAR"]
        ELSE LET j == Min(stops)
             IN  IF raises(j)
                 THEN \* self._pools[pool_index][-1] on an empty pool: IndexError
                      [s |-> S, ret |-> "RAISED"]
                 ELSE [s |-> add_primer_pair_to_pool(S, cand(j), pool(j), msa.msa_index),
                       ret |-> "ADDED_CIRULAR"]

----------------------------------------------------------------------------
(* Pair generator                                                          *)

\* the rkmers whose start lies in [start, end], in list order
get_r_window_FAST2(kmers, start, end) ==
    LET Keep(rkmer) == rkmer.start >= start /\ rkmer.start <= end
    IN  SelectSeq(kmers, Keep)

RECURSIVE Flatten(_)
Flatten(ss) == IF ss = <<>> THEN <<>> ELSE Head(ss) \o Flatten(Tail(ss))

generate_valid_primerpairs_unchecked(fkmers, rkmers, amplicon_size_min, amplicon_size_max, msa_index) ==
    LET PairsOf(fkmer) ==
            LET fkmer_start == Min(starts(fkmer))
                pos_rkmer == get_r_window_FAST2(rkmers,
                                                fkmer_start + amplicon_size_min,
                                                fkmer_start + amplicon_size_max)
            IN  [i \in 1..Len(pos_rkmer) |-> PrimerPair(fkmer, pos_rkmer[i], msa_index, "list")]
        checked_pp == Flatten([i \in 1..Len(fkmers) |-> PairsOf(fkmers[i])])
    IN  StableSortDesc(checked_pp, checked_pp, "pair")

generate_valid_primerpairs(fkmers, rkmers, amplicon_size_min, amplicon_size_max, msa_index) ==
    LET PairsOf(fkmer) ==
            LET fkmer_start == Min(starts(fkmer))
                pos_rkmer == get_r_window_FAST2(rkmers,
                                                fkmer_start + amplicon_size_min,
                                                fkmer_start + amplicon_size_max)
                Free(rkmer) == ~do_pools_interact_py(fkmer.seqs, rkmer.seqs)
                free == SelectSeq(pos_rkmer, Free)
            IN  [i \in 1..Len(free) |-> PrimerPair(fkmer, free[i], msa_index, "list")]
        checked_pp == Flatten([i \in 1..Len(fkmers) |-> PairsOf(fkmers[i])])
    IN  StableSortDesc(checked_pp, checked_pp, "pair")

----------------------------------------------------------------------------
(* Inputs of the solver runs                                               *)

AC == <<"A", "C">>
GT == <<"G", "T">>
CA == <<"C", "A">>
TAC == <<"T", "A", "C">>
CAT == <<"C", "A", "T">>

\* the oligo set the digestion found at a column
FSeqs(c) == CASE c = 2 -> {AC} [] c = 4 -> {GT} [] c = 6 -> {AC} [] OTHER -> {AC, TAC}
RSeqs(c) == CASE c = 5 -> {CA} [] c = 6 -> {GT} [] c = 7 -> {CA, CAT} [] c = 8 -> {AC}
              [] OTHER -> {CA}

FCols == {2, 4, 6, 11}
RColChoices == { {5, 6, 7, 8, 12} }

\* a set of columns as the list of its kmers, sorted by column
RECURSIVE SortedCols(_)
SortedCols(C) == IF C = {} THEN <<>> ELSE <<Min(C)>> \o SortedCols(C \ {Min(C)})

FKmersAt(C) == LET cs == SortedCols(C) IN [i \in 1..Len(cs) |-> FKmer(cs[i], FSeqs(cs[i]))]
RKmersAt(C) == LET cs == SortedCols(C) IN [i \in 1..Len(cs) |-> RKmer(cs[i], RSeqs(cs[i]))]

CC == <<"C", "C">>
DbUniverse == ({AC} \X {0, 1} \X {0, 2}) \cup { <<CC, 0, 0>>, <<CC, 1, 2>> }

MSA(msa_index, fkmers, rkmers) ==
    [msa_index |-> msa_index, fkmers |-> fkmers, rkmers |-> rkmers,
     primerpairs |-> generate_valid_primerpairs(fkmers, rkmers, cfg.amplicon_size_min,
                                                cfg.amplicon_size_max, msa_index)]

Configs ==
    [npools : 1..MaxPools, min_overlap : {0, 1}, mismatch_fuzzy : {TRUE},
     mismatch_kmersize : {2}, mismatch_product_size : {4},
     amplicon_size_min : {4}, amplicon_size_max : {5}, n_cores : {2}]

DimerChoices == { {}, {{CAT, GT}}, {{AC, TAC}} }

\* dimer tables explored with one pool and an empty matchDB: under the first no
\* pair of the second MSA fits beside the first pair of the first MSA, under
\* the second every pair of the second MSA dimerises with itself, so that
\* generate_valid_primerpairs leaves the MSA no pair
CrowdedDimers == { { {CA}, {AC} }, { {GT, CA}, {AC} } }

Scheme == [pools |-> pools, matches |-> matches, current_pool |-> current_pool,
           last_pp_added |-> last_pp_added]

Init ==
    /\ cfg \in Configs
    /\ db \in { d \in SUBSET DbUniverse : Cardinality(d) <= MaxDbEntries }
    /\ dimers \in DimerChoices \cup CrowdedDimers
    /\ (dimers \in CrowdedDimers) => (cfg.npools = 1 /\ db = {})
    /\ \E R \in RColChoices :
          msas = << MSA(0, FKmersAt(FCols), RKmersAt(R)),
                    MSA(1, FKmersAt({4, 6}), RKmersAt({7, 8})) >>
    /\ pools = SchemeInit(cfg.npools).pools
    /\ matches = SchemeInit(cfg.npools).matches
    /\ current_pool = 0
    /\ last_pp_added = <<>>
    /\ cur = -1
    /\ phase = "START"
    /\ ret = "None"
    /\ pre = SchemeInit(cfg.npools)
    /\ call = <<>>
    /\ out = <<>>

\* the solver state after an operation that returned r
Becomes(r) ==
    /\ pools' = r.s.pools
    /\ matches' = r.s.matches
    /\ current_pool' = r.s.current_pool
    /\ last_pp_added' = r.s.last_pp_added
    /\ ret' = r.ret
    /\ pre' = Scheme
    /\ UNCHANGED <<cfg, db, dimers, msas, call, out>>

\* START -> add_first -> PLACED, for the next MSA
AddFirst ==
    /\ phase \in {"START", "PLACED", "TERMINAL"}
    /\ cur + 1 < Len(msas)
    /\ LET r == add_first_primer_pair(Scheme, msas[cur + 2].primerpairs, cur + 1)
       IN  /\ Becomes(r)
           /\ phase' = IF r.ret = "ADDED_FIRST_PRIMERPAIR" THEN "PLACED" ELSE "TERMINAL"
    /\ cur' = cur + 1

TryOverlap ==
    /\ phase = "PLACED"
    /\ Becomes(try_ol_primerpairs(Scheme, msas[cur + 1].primerpairs, cur))
    /\ UNCHANGED <<cur, phase>>

TryBacktrack ==
    /\ phase = "PLACED"
    /\ LET r == try_backtrack(Scheme, msas[cur + 1].primerpairs, cur)
       IN  /\ Becomes(r)
           /\ phase' = IF r.ret = "RAISED" THEN "RAISED" ELSE "PLACED"
    /\ UNCHANGED cur

TryWalk ==
    /\ phase = "PLACED"
    /\ Becomes(try_walk_primerpair(Scheme, msas[cur + 1].primerpairs, cur))
    /\ UNCHANGED <<cur, phase>>

\* the results of the pre-screen in any completion order
TryCircular ==
    /\ phase = "PLACED"
    /\ \E mp_pp_bool \in
            CompletionOrders(prescreen(circular_candidates(Scheme, msas[cur + 1]))) :
          LET r == try_circular(Scheme, msas[cur + 1], mp_pp_bool)
          IN  /\ Becomes(r)
              /\ phase' = IF r.ret = "RAISED" THEN "RAISED" ELSE "TERMINAL"
    /\ UNCHANGED cur

Next == AddFirst \/ TryOverlap \/ TryBacktrack \/ TryWalk \/ TryCircular

Spec == Init /\ [][Next]_vars

----------------------------------------------------------------------------
(* Properties of the solver                                                *)

PoolIndexes == 0..(cfg.npools - 1)

ExpectedHits(pp) ==
    { <<pp.msa_index, pp.fprimer.end - cfg.mismatch_kmersize, "+">>,
      <<pp.msa_index, pp.rprimer.start, "-">> }

UnexpectedMatches(pp) == pp_find_matches(pp, FALSE) \ ExpectedHits(pp)

\* C2: in every pool, for every two distinct members, the mispriming detector
\* applied to the MatchDB matches of the one and of the other returns false.
C2_PoolMisprimingFree ==
    \A p \in PoolIndexes : \A i, j \in 1..Len(pools[p]) :
        i # j => ~detect_new_products(UnexpectedMatches(pools[p][i]),
                                      UnexpectedMatches(pools[p][j]),
                                      cfg.mismatch_product_size)

\* C3: in every pool, no two distinct members have interacting oligos.
C3_PoolDimerFree ==
    \A p \in PoolIndexes : \A i, j \in 1..Len(pools[p]) :
        i # j => ~do_pools_interact_py(all_seqs(pools[p][i]), all_seqs(pools[p][j]))

C3_Witness ==
    \E p \in PoolIndexes :
        /\ Len(pools[p]) >= 2
        /\ \E i \in 1..Len(msas[cur + 1].primerpairs) :
              do_pools_interact_py(all_seqs(msas[cur + 1].primerpairs[i]),
                                   PoolSeqs(Scheme, p))

\* C4: two distinct members of a pool with the same msa_index occupy disjoint
\* intervals [min(fprimer.starts), max(rprimer.ends)].
C4_PoolIntervalsDisjoint ==
    \A p \in PoolIndexes : \A i, j \in 1..Len(pools[p]) :
        (i # j /\ pools[p][i].msa_index = pools[p][j].msa_index)
            => \/ pp_end(pools[p][i]) < pp_start(pools[p][j])
               \/ pp_end(pools[p][j]) < pp_start(pools[p][i])

\* the pair placed last joined a pool that holds an earlier pair of its MSA
C4_Witness ==
    \E p \in PoolIndexes : \E i, j \in 1..Len(pools[p]) :
        /\ i < j
        /\ pools[p][i].msa_index = pools[p][j].msa_index
        /\ last_pp_added # <<>>
        /\ Top(Scheme) = pools[p][j]

C8_CircularDeterministic ==
    phase = "PLACED" =>
        LET cands == circular_candidates(Scheme, msas[cur + 1])
        IN  \A o \in CompletionOrders(prescreen(cands)) :
                try_circular(Scheme, msas[cur + 1], o)
                    = try_circular(Scheme, msas[cur + 1], prescreen(cands))

----------------------------------------------------------------------------
(* Runs of the MatchDB lookups, the mispriming detector and the pair        *)
(* generator on their own: the arguments are drawn in the initial state,    *)
(* the call leaves its result in out                                        *)

\* the candidates whose own FKmer and RKmer do not dimerise, in candidate order
OwnDimerFree(non_checked_pp) ==
    LET Free(pp) == ~inter_free(pp)
    IN  SelectSeq(non_checked_pp, Free)

\* C35: in try_circular, a candidate pair is kept for placement if and only
\* if its own FKmer and RKmer do not dimerise: each result of the parallel
\* pre-screen is attributed to the candidate that produced it, for every
\* completion order of the workers.
C35_KeptIffOwnDimerFree ==
    phase = "PLACED" =>
        LET cands == circular_candidates(Scheme, msas[cur + 1])
        IN  \A o \in CompletionOrders(prescreen(cands)) :
                iter_free_primer_pairs(o, cands) = OwnDimerFree(cands)

\* with the results in candidate order the kept pairs are the dimer-free ones
C35_KeptInCandidateOrder ==
    phase = "PLACED" =>
        LET cands == circular_candidates(Scheme, msas[cur + 1])
        IN  iter_free_primer_pairs(prescreen(cands), cands) = OwnDimerFree(cands)

\* a pair placed by try_circular does not dimerise with itself
C35_PlacedPairOwnDimerFree == ret = "ADDED_CIRULAR" => ~inter_free(Top(Scheme))

\* the members of SchemeReturn
SchemeReturn ==
    {"ADDED_OL_PRIMERPAIR", "ADDED_WALK_PRIMERPAIR", "ADDED_FIRST_PRIMERPAIR",
     "NO_OL_PRIMERPAIR", "NO_WALK_PRIMERPAIR", "NO_FIRST_PRIMERPAIR",
     "ADDED_BACKTRACKED", "NO_BACKTRACK", "ADDED_CIRULAR", "NO_CIRCULAR"}

\* C36: every solver operation returns one of the SchemeReturn outcomes and
\* never raises, in every state that satisfies its precondition: add_first_pair
\* in any state including an empty candidate list, and try_overlap, try_walk,
\* try_backtrack and try_circular in any state with at least one placed pair,
\* including states where only one pair is placed or some pool is still empty.
C36_ReturnsSchemeReturn == ret # "None" => ret \in SchemeReturn

\* try_backtrack raises exactly when it is called with a single placed pair
C36_BacktrackRaisesOnSinglePair ==
    [][TryBacktrack => (ret' = "RAISED" <=> Len(last_pp_added) = 1)]_vars

\* try_circular has raised on a pool that is still empty
C36_CircularRaisedOnEmptyPool ==
    /\ phase = "RAISED"
    /\ Len(pre.last_pp_added) > 1
    /\ \E p \in DOMAIN pools : pools[p] = <<>>

\* add_first_primer_pair has returned False
C36_AddFirstReturnedFalse == ret = "False" /\ msas[cur + 1].primerpairs = <<>>

DefaultCfg ==
    [npools |-> 1, min_overlap |-> 0, mismatch_fuzzy |-> TRUE, mismatch_kmersize |-> 2,
     mismatch_product_size |-> 4, amplicon_size_min |-> 4, amplicon_size_max |-> 5,
     n_cores |-> 2]

\* no scheme is being solved
NoScheme ==
    /\ dimers = {}
    /\ msas = <<>>
    /\ pools = SchemeInit(1).pools
    /\ matches = SchemeInit(1).matches
    /\ current_pool = 0
    /\ last_pp_added = <<>>
    /\ cur = -1
    /\ ret = "None"
    /\ pre = SchemeInit(1)
    /\ phase = "CALL"
    /\ out = <<>>

Returns(name, value) ==
    /\ phase' = "DONE"
    /\ ret' = name
    /\ out' = value
    /\ UNCHANGED <<cfg, db, dimers, msas, pools, matches, current_pool, last_pp_added,
                   cur, pre, call>>

Positions == 0..MaxPos

FindDbUniverse == {AC, CA, CC} \X {0, 1} \X Positions
FindFKmers == { FKmer(p + 2, s) : p \in Positions, s \in { {AC}, {GT}, {AC, TAC} } }
FindRKmers == { RKmer(p, s) : p \in Positions, s \in { {CA}, {GT}, {CA, CAT} } }

InitFind ==
    /\ NoScheme
    /\ cfg \in { [DefaultCfg EXCEPT !.mismatch_fuzzy = b] : b \in BOOLEAN }
    /\ db \in { d \in SUBSET FindDbUniverse : Cardinality(d) <= MaxDbEntries }
    /\ call \in [kmer : FindFKmers \cup FindRKmers, msaindex : {0, 1}]

FindFkmer ==
    /\ phase = "CALL"
    /\ "end" \in DOMAIN call.kmer
    /\ Returns("find_fkmer",
               [removed |-> find_fkmer(db, call.kmer, cfg.mismatch_fuzzy,
                                       cfg.mismatch_kmersize, call.msaindex, TRUE),
                all |-> find_fkmer(db, call.kmer, cfg.mismatch_fuzzy,
                                   cfg.mismatch_kmersize, call.msaindex, FALSE)])

FindRkmer ==
    /\ phase = "CALL"
    /\ "start" \in DOMAIN call.kmer
    /\ Returns("find_rkmer",
               [removed |-> find_rkmer(db, call.kmer, cfg.mismatch_fuzzy,
                                       cfg.mismatch_kmersize, call.msaindex, TRUE),
                all |-> find_rkmer(db, call.kmer, cfg.mismatch_fuzzy,
                                   cfg.mismatch_kmersize, call.msaindex, FALSE)])

NextFind == FindFkmer \/ FindRkmer

SpecFind == InitFind /\ [][NextFind]_vars

MatchUniverse == {0, 1} \X Positions \X {"+", "-"}
MatchSets == { s \in SUBSET MatchUniverse : Cardinality(s) <= MaxMatches }

InitDetect ==
    /\ NoScheme
    /\ cfg = DefaultCfg
    /\ db = {}
    /\ call \in [new_matches : MatchSets, old_matches : MatchSets, product_size : {2, 3}]

Detect ==
    /\ phase = "CALL"
    /\ Returns("detect_new_products",
               detect_new_products(call.new_matches, call.old_matches, call.product_size))

NextDetect == Detect

SpecDetect == InitDetect /\ [][NextDetect]_vars

PairFEnds == {3, 4}
PairRStarts == {6, 7, 8, 9}
PairFSeqs == { {AC}, {AC, TAC} }
PairRSeqs == { {CA}, {CA, CAT} }

\* the strings primaldimer reports as interacting
PairDimerChoices == { {}, { {AC, GT} } }

InitPairs ==
    /\ cfg = DefaultCfg
    /\ db = {}
    /\ dimers \in PairDimerChoices
    /\ msas = <<>>
    /\ pools = SchemeInit(1).pools
    /\ matches = SchemeInit(1).matches
    /\ current_pool = 0
    /\ last_pp_added = <<>>
    /\ cur = -1
    /\ ret = "None"
    /\ pre = SchemeInit(1)
    /\ phase = "CALL"
    /\ out = <<>>
    /\ \E E \in SUBSET PairFEnds \ {{}}, R \in SUBSET PairRStarts \ {{}},
          fs \in PairFSeqs, rs \in PairRSeqs, lo \in {3, 4}, hi \in {5, 6} :
          call = [fkmers |-> LET cs == SortedCols(E)
                             IN  [i \in 1..Len(cs) |-> FKmer(cs[i], fs)],
                  rkmers |-> LET cs == SortedCols(R)
                             IN  [i \in 1..Len(cs) |->
                                    RKmer(cs[i], IF cs[i] = 7 THEN {GT} ELSE rs)],
                  amplicon_size_min |-> lo,
                  amplicon_size_max |-> hi]

GeneratePairs ==
    /\ phase = "CALL"
    /\ Returns("generate_valid_primerpairs",
               generate_valid_primerpairs(call.fkmers, call.rkmers, call.amplicon_size_min,
                                          call.amplicon_size_max, 0))

NextPairs == GeneratePairs

SpecPairs == InitPairs /\ [][NextPairs]_vars

\* C7: every pair p emitted by the pair generator has
\* amplicon_size_min <= max(p.rprimer.ends) - min(p.fprimer.starts) <= amplicon_size_max.
C7_AmpliconSizeLaw ==
    ret = "generate_valid_primerpairs" =>
        \A i \in 1..Len(out) :
            /\ call.amplicon_size_min <= pp_end(out[i]) - pp_start(out[i])
            /\ pp_end(out[i]) - pp_start(out[i]) <= call.amplicon_size_max

\* C9: detect_new_products returns true exactly when a '+' tuple of one set and
\* a '-' tuple of the other share their msa_index and lie
\* 0 < pos_minus - pos_plus < product_size apart; tuples of one and the same
\* set never make it return true.
C9_DetectIff ==
    ret = "detect_new_products" =>
        (out <=> \E plus \in MatchUniverse, minus \in MatchUniverse :
                    /\ plus[3] = "+"
                    /\ minus[3] = "-"
                    /\ \/ plus \in call.new_matches /\ minus \in call.old_matches
                       \/ plus \in call.old_matches /\ minus \in call.new_matches
                    /\ plus[1] = minus[1]
                    /\ 0 < minus[2] - plus[2]
                    /\ minus[2] - plus[2] < call.product_size)

\* a call where only tuples of the same set lie a product apart, and a call
\* that found a product
C9_Witness ==
    /\ ret = "detect_new_products"
    /\ out = FALSE
    /\ \E plus \in call.new_matches, minus \in call.new_matches :
          /\ plus[3] = "+" /\ minus[3] = "-" /\ plus[1] = minus[1]
          /\ 0 < minus[2] - plus[2] /\ minus[2] - plus[2] < call.product_size
    /\ call.old_matches # {}

\* C10: with remove_expected the lookups return the full result minus the
\* single expected tuple, (msa_index, fk.end - k, '+') for find_fkmer and
\* (msa_index, rk.start, '-') for find_rkmer; every other match is kept.
C10_RemovesOnlyExpected ==
    /\ ret = "find_fkmer" =>
          out.removed = out.all \ { <<call.msaindex,
                                      call.kmer.end - cfg.mismatch_kmersize, "+">> }
    /\ ret = "find_rkmer" =>
          out.removed = out.all \ { <<call.msaindex, call.kmer.start, "-">> }

----------------------------------------------------------------------------
(* MatchDB lookups                                                         *)

Bases == {"A", "C", "G", "T"}
LookupQueries == [1..2 -> Bases]
LookupDbUniverse == {AC, GT, CC} \X {0, 1} \X Positions

InitLookup ==
    /\ NoScheme
    /\ cfg \in { [DefaultCfg EXCEPT !.mismatch_fuzzy = b] : b \in BOOLEAN }
    /\ db \in { d \in SUBSET LookupDbUniverse : Cardinality(d) <= MaxDbEntries }
    /\ call \in [seq : LookupQueries]

FindMatches ==
    /\ phase = "CALL"
    /\ Returns("find_matches", find_matches(db, {call.seq}, cfg.mismatch_fuzzy))

NextLookup == FindMatches

SpecLookup == InitLookup /\ [][NextLookup]_vars

\* the strings that differ from seq by exactly one substitution
Neighbours(seq) ==
    { t \in [1..Len(seq) -> Bases] :
        Cardinality({ i \in 1..Len(seq) : t[i] # seq[i] }) = 1 }

\* the stored places of seq labelled '+' and those of its reverse complement
\* labelled '-'
StoredHits(seq) ==
    { <<e[2], e[3], "+">> : e \in { x \in db : x[1] = seq } } \cup
    { <<e[2], e[3], "-">> : e \in { x \in db : x[1] = [i \in 1..Len(seq) |-> Complement(seq[Len(seq) + 1 - i])] } }

\* C11: a lookup of seq returns exactly the stored (msa, pos) of seq labelled
\* '+' and the stored (msa, pos) of reverse_complement(seq) labelled '-'; a
\* fuzzy lookup returns the union of that over seq and every string one
\* substitution away from seq.
C11_FindExact ==
    ret = "find_matches" =>
        out = IF cfg.mismatch_fuzzy
              THEN UNION { StoredHits(t) : t \in {call.seq} \cup Neighbours(call.seq) }
              ELSE StoredHits(call.seq)

\* a fuzzy lookup that found a '-' place through a neighbour and a '+' place
\* of the query itself
C11_Witness ==
    /\ ret = "find_matches"
    /\ cfg.mismatch_fuzzy
    /\ \E m \in out : m[3] = "-" /\ m \notin StoredHits(call.seq)
    /\ \E m \in out : m[3] = "+" /\ m \in StoredHits(call.seq)

----------------------------------------------------------------------------
(* MatchDB build                                                           *)

MaxRowLen == 4

Range(s) == { s[i] : i \in 1..Len(s) }

\* Python str.replace("-", "")
StripGaps(s) == SelectSeq(s, LAMBDA c : c # "-")

\* the store maps a k-mer to the "*"-joined list of its "msa;pos" entries
write_unique_always_append(d, sequence, match) ==
    IF sequence \in DOMAIN d
    THEN [d EXCEPT ![sequence] = Append(@, match)]
    ELSE d @@ (sequence :> <<match>>)

write_unique(d, sequence, match) ==
    IF sequence \in DOMAIN d
    THEN IF match \notin Range(d[sequence])
         THEN [d EXCEPT ![sequence] = Append(@, match)]
         ELSE d
    ELSE d @@ (sequence :> <<match>>)

\* the while loop of _digest_kmers_into_db; seq[n] of Python is seq[n + 1] here
RECURSIVE walk_right_until_size(_, _, _, _, _)
walk_right_until_size(seq, kmer, i, kmer_size, counter) ==
    IF counter + kmer_size + i < Len(seq) /\ Len(kmer) < kmer_size
    THEN LET new_base == seq[i + kmer_size + counter + 1]
         IN  walk_right_until_size(seq,
                                   IF new_base # "-" THEN Append(kmer, new_base) ELSE kmer,
                                   i, kmer_size, counter + 1)
    ELSE kmer

\* the for loop of _digest_kmers_into_db from column i on
RECURSIVE digest_columns(_, _, _, _, _)
digest_columns(d, seq, kmer_size, msa_index, i) ==
    IF i >= Len(seq) + 1 - kmer_size
    THEN d
    ELSE IF seq[i + 1] = "-"
         THEN digest_columns(d, seq, kmer_size, msa_index, i + 1)
         ELSE LET window == StripGaps(SubSeq(seq, i + 1, i + kmer_size))
                  kmer == IF Len(window) # kmer_size
                          THEN walk_right_until_size(seq, window, i, kmer_size, 1)
                          ELSE window
              IN  digest_columns(IF Len(kmer) = kmer_size /\ "N" \notin Range(kmer)
                                 THEN write_unique(d, kmer, <<msa_index, i>>)
                                 ELSE d,
                                 seq, kmer_size, msa_index, i + 1)

digest_kmers_into_db(d, seq, kmer_size, msa_index) ==
    digest_columns(d, seq, kmer_size, msa_index, 0)

BuildRows == [1..MaxRowLen -> {"A", "C", "N", "-"}]

\* the rows that differ from row in at most one column
OneColumnVariants(row) ==
    { [row EXCEPT ![i] = c] : i \in 1..Len(row), c \in {"A", "C", "N", "-"} }

\* MatchDB.__init__ about to read the records of one MSA into the empty store
InitBuild ==
    /\ NoScheme
    /\ cfg = DefaultCfg
    /\ db = << >>
    /\ \E row \in BuildRows, msa_index \in {0, 1} :
          \E other \in OneColumnVariants(row) :
          call = [records |-> <<row, other>>, msa_index |-> msa_index, done |-> 0]

\* one turn of the loop over the records
DigestRecord ==
    /\ phase = "CALL"
    /\ call.done < Len(call.records)
    /\ db' = digest_kmers_into_db(db, call.records[call.done + 1], cfg.mismatch_kmersize,
                                  call.msa_index)
    /\ call' = [call EXCEPT !.done = @ + 1]
    /\ UNCHANGED <<cfg, dimers, msas, pools, matches, current_pool, last_pp_added,
                   cur, phase, ret, pre, out>>

NextBuild == DigestRecord

SpecBuild == InitBuild /\ [][NextBuild]_vars

\* the k-mers the store holds for (msa_index, i)
StoredAt(i) == { kmer \in DOMAIN db : <<call.msa_index, i>> \in Range(db[kmer]) }

\* the first k non-gap characters of row from column i on, none skipped
ContiguousKmer(row, i, k) ==
    LET rest == StripGaps(SubSeq(row, i + 1, Len(row)))
    IN  IF Len(rest) >= k THEN SubSeq(rest, 1, k) ELSE << >>

\* C12: for every row read and every column i that holds a base, the k-mer
\* stored at (msa_index, i) is the first k non-gap characters of the row read
\* contiguously from column i, and it is stored iff those k characters exist
\* and none of them is N.
C12_StoredKmerIsContiguous ==
    \A i \in 0..(MaxRowLen - 1) :
        StoredAt(i) =
            { ContiguousKmer(call.records[r], i, cfg.mismatch_kmersize) :
                r \in { q \in 1..call.done :
                          /\ call.records[q][i + 1] # "-"
                          /\ ContiguousKmer(call.records[q], i, cfg.mismatch_kmersize) # << >>
                          /\ "N" \notin Range(ContiguousKmer(call.records[q], i,
                                                             cfg.mismatch_kmersize)) } }

\* C13: whatever rows have been read, the store holds each
\* (k-mer, msa_index, position) at most once.
C13_EntriesUnique ==
    \A kmer \in DOMAIN db :
        \A i, j \in 1..Len(db[kmer]) : db[kmer][i] = db[kmer][j] => i = j

\* two rows of one MSA were read that carry the same k-mer at the same column
C13_Witness ==
    /\ call.done = 2
    /\ LET first == digest_kmers_into_db(<< >>, call.records[1], cfg.mismatch_kmersize,
                                         call.msa_index)
           second == digest_kmers_into_db(<< >>, call.records[2], cfg.mismatch_kmersize,
                                          call.msa_index)
       IN  \E kmer \in DOMAIN first \cap DOMAIN second :
              /\ Range(first[kmer]) \cap Range(second[kmer]) # {}
              /\ kmer \in DOMAIN db

----------------------------------------------------------------------------
(* Digestion of an alignment into FKmers and RKmers                        *)
(* A cell of the alignment is a base, an ambiguity code ("M": A or C),     *)
(* "N", the gap "-" or "" (the row is truncated there).  A result of a     *)
(* walk is a string, or an error written as a one-element sequence.        *)

MaxCols == 5

\* salt-corrected Tm, replaced by 2 per A/T and 4 per G/C; a string holding
\* an ambiguity code stays below every threshold
calc_tm(seq) ==
    SeqSum([i \in 1..Len(seq) |->
              CASE seq[i] \in {"A", "T"} -> 2
                [] seq[i] \in {"C", "G"} -> 4
                [] OTHER -> 0 - 100])

AMBIGUOUS_DNA(b) ==
    CASE b = "M" -> {"A", "C"}
      [] b \in {"A", "C", "G", "T"} -> {b}
      [] OTHER -> {}

RECURSIVE expand_amb_string(_)
expand_amb_string(s) ==
    IF s = << >> THEN { << >> }
    ELSE { <<b>> \o t : b \in AMBIGUOUS_DNA(Head(s)), t \in expand_amb_string(Tail(s)) }

\* the concrete strings of seqs; the empty set stands for None
expand_ambs(seqs) ==
    IF \E s \in seqs : expand_amb_string(s) = {}
    THEN {}
    ELSE UNION { expand_amb_string(s) : s \in seqs }

\* majority base of a column, gaps and empty cells aside, ties by A < C < G < T
get_most_common_base(array, col) ==
    LET order == <<"A", "C", "G", "T", "M", "N">>
        count(b) == Cardinality({ r \in 1..Len(array) : array[r][col + 1] = b })
        best == { i \in 1..Len(order) :
                    /\ count(order[i]) > 0
                    /\ \A j \in 1..Len(order) :
                          \/ count(order[j]) < count(order[i])
                          \/ count(order[j]) = count(order[i]) /\ i <= j }
    IN  IF best = {} THEN "" ELSE order[CHOOSE i \in best : TRUE]

\* the order in which a loop visits the members of a set
RECURSIVE IterationOrder(_)
IterationOrder(S) ==
    IF S = {} THEN << >>
    ELSE LET x == CHOOSE y \in S : TRUE IN <<x>> \o IterationOrder(S \ {x})

\* a cell as the piece of a string it adds: "" adds nothing
Chars(cell) == IF cell = "" THEN << >> ELSE <<cell>>

Raise(error) == [raised |-> TRUE, value |-> <<error>>]
Return(value) == [raised |-> FALSE, value |-> value]

ERROR_SET ==
    { <<e>> : e \in {"WalksOut", "WalksTooFar", "ContainsInvalidBase", "GapOnSetBase",
                      "CustomRecursionError", "CustomErrors"} }

\* walked is the outcome of the walk function on the arguments of wrap_walk
wrap_walk(walked) == IF walked.raised THEN <<walked.value>> ELSE walked.value

RECURSIVE walk_right(_, _, _, _, _, _)
walk_right(array, col_index_right, col_index_left, row_index, seq_str, config) ==
    IF calc_tm(seq_str) >= config.primer_tm_min
    THEN Return(<<seq_str>>)
    ELSE IF \/ col_index_right >= Len(array[1]) - 1
            \/ col_index_left >= Len(array[1]) - 1
    THEN Raise("WalksOut")
    ELSE IF col_index_right - col_index_left >= config.primer_max_walk
    THEN Raise("WalksTooFar")
    ELSE LET cell == array[row_index + 1][col_index_right + 1]
             new_base == IF cell = ""
                         THEN get_most_common_base(array, col_index_right + 1)
                         ELSE cell
             new_string == StripGaps(seq_str \o Chars(new_base))
         IN  IF "N" \in Range(new_string)
             THEN Raise("ContainsInvalidBase")
             ELSE IF expand_ambs({new_string}) = {}
             THEN Raise("ContainsInvalidBase")
             ELSE LET exp_new_string == IterationOrder(expand_ambs({new_string}))
                  IN  Return(Flatten([n \in 1..Len(exp_new_string) |->
                          wrap_walk(walk_right(array, col_index_right + 1, col_index_left,
                                               row_index, exp_new_string[n], config))]))

RECURSIVE walk_left(_, _, _, _, _, _)
walk_left(array, col_index_right, col_index_left, row_index, seq_str, config) ==
    IF col_index_left <= 0 \/ col_index_right <= 0
    THEN Raise("WalksOut")
    ELSE IF calc_tm(seq_str) >= config.primer_tm_min
    THEN Return(<<seq_str>>)
    ELSE IF col_index_right - col_index_left >= config.primer_max_walk
    THEN Raise("WalksTooFar")
    ELSE LET cell == array[row_index + 1][col_index_left - 1 + 1]
             new_base == IF cell = ""
                         THEN get_most_common_base(array, col_index_left - 1)
                         ELSE cell
             new_string == StripGaps(Chars(new_base) \o seq_str)
         IN  IF "N" \in Range(new_string)
             THEN Raise("ContainsInvalidBase")
             ELSE IF expand_ambs({new_string}) = {}
             THEN Raise("ContainsInvalidBase")
             ELSE LET exp_new_string == IterationOrder(expand_ambs({new_string}))
                  IN  Return(Flatten([n \in 1..Len(exp_new_string) |->
                          wrap_walk(walk_left(array, col_index_right, col_index_left - 1,
                                              row_index, exp_new_string[n], config))]))

parse_error(results) ==
    IF <<"ContainsInvalidBase">> \in results THEN <<"CONTAINS_INVALID_BASE">>
    ELSE IF <<"GapOnSetBase">> \in results THEN <<"GAP_ON_SET_BASE">>
    ELSE IF <<"WalksOut">> \in results THEN <<"WALKS_OUT">>
    ELSE IF <<"CustomRecursionError">> \in results THEN <<"CUSTOM_RECURSION_ERROR">>
    ELSE IF <<"CustomErrors">> \in results THEN <<"CUSTOM_ERRORS">>
    ELSE IF <<"WalksTooFar">> \in results THEN <<"WALK_TO_FAR">>
    ELSE <<"AMB_FAIL">>

parse_error_list(error_list) ==
    [n \in 1..Len(error_list) |->
        IF error_list[n] \in ERROR_SET THEN parse_error({error_list[n]}) ELSE error_list[n]]

DIGESTION_ERROR ==
    { <<e>> : e \in {"WALKS_OUT", "CONTAINS_INVALID_BASE", "CUSTOM_RECURSION_ERROR",
                      "CUSTOM_ERRORS", "GAP_ON_SET_BASE", "HAIRPIN_FAIL", "DIMER_FAIL",
                      "WALK_TO_FAR", "AMB_FAIL", "THERMO_HIGH_TM", "NO_SEQUENCES"} }

\* counts are fractions <<numerator, denominator>>; a Counter and a dict are
\* sequences of <<key, count>> in insertion order
FracAdd(a, b) == <<a[1] * b[2] + b[1] * a[2], a[2] * b[2]>>
FracGt(a, b) == a[1] * b[2] > b[1] * a[2]
FracDiv(a, b) == <<a[1] * b[2], a[2] * b[1]>>

Keys(counter) == { counter[n][1] : n \in 1..Len(counter) }

\* Counter.update for one key
CounterAdd(counter, key, count) ==
    IF key \in Keys(counter)
    THEN [n \in 1..Len(counter) |->
            IF counter[n][1] = key
            THEN <<key, FracAdd(counter[n][2], count)>>
            ELSE counter[n]]
    ELSE Append(counter, <<key, count>>)

\* Counter.update({seq: 1 / len(results) for seq in parse_error_list(results)})
RECURSIVE CounterUpdate(_, _, _)
CounterUpdate(counter, keys, count) ==
    IF keys = << >> THEN counter
    ELSE CounterUpdate(CounterAdd(counter, Head(keys), count),
                       SelectSeq(Tail(keys), LAMBDA k : k # Head(keys)), count)

\* np.unique(align_array[:, col]): the share of gaps among all rows
GapFreq(align_array, col) ==
    <<Cardinality({ r \in 1..Len(align_array) : align_array[r][col + 1] = "-" }),
      Len(align_array)>>

\* "".join(cells).replace("-", "")
JoinCells(cells) == StripGaps(Flatten([n \in 1..Len(cells) |-> Chars(cells[n])]))

EarlyReturn(error) == << <<error, <<0 - 1, 1>>>> >>

\* the loop over the rows of f_digest_to_count from row_index on
RECURSIVE f_count_rows(_, _, _, _, _, _)
f_count_rows(align_array, config, end_col, min_freq, row_index, total_col_seqs) ==
    IF row_index >= Len(align_array)
    THEN total_col_seqs
    ELSE IF align_array[row_index + 1][end_col + 1] = "-"
    THEN f_count_rows(align_array, config, end_col, min_freq, row_index + 1,
                      CounterAdd(total_col_seqs, <<"GAP_ON_SET_BASE">>, <<1, 1>>))
    ELSE LET start_seq == JoinCells(SubSeq(align_array[row_index + 1],
                                           end_col - config.primer_size_min + 1, end_col))
             results == wrap_walk(walk_left(align_array, end_col,
                                            end_col - config.primer_size_min,
                                            row_index, start_seq, config))
         IN  IF "N" \in Range(start_seq)
             THEN f_count_rows(align_array, config, end_col, min_freq, row_index + 1,
                               CounterAdd(total_col_seqs, <<"CONTAINS_INVALID_BASE">>,
                                          <<1, 1>>))
             ELSE IF start_seq = << >>
             THEN f_count_rows(align_array, config, end_col, min_freq, row_index + 1,
                               total_col_seqs)
             ELSE IF min_freq[1] = 0 /\ Range(results) \cap ERROR_SET # {}
             THEN EarlyReturn(parse_error(Range(results)))
             ELSE f_count_rows(align_array, config, end_col, min_freq, row_index + 1,
                               CounterUpdate(total_col_seqs, parse_error_list(results),
                                             <<1, Len(results)>>))

f_digest_to_count(align_array, config, end_col, min_freq) ==
    IF FracGt(GapFreq(align_array, end_col), min_freq)
    THEN EarlyReturn(<<"GAP_ON_SET_BASE">>)
    ELSE IF end_col - config.primer_size_min < 0
    THEN EarlyReturn(<<"WALKS_OUT">>)
    ELSE f_count_rows(align_array, config, end_col, min_freq, 0, << >>)

\* the loop over the rows of r_digest_to_count from row_index on
RECURSIVE r_count_rows(_, _, _, _, _, _)
r_count_rows(align_array, config, start_col, min_freq, row_index, total_col_seqs) ==
    IF row_index >= Len(align_array)
    THEN total_col_seqs
    ELSE IF align_array[row_index + 1][start_col + 1] = "-"
    THEN r_count_rows(align_array, config, start_col, min_freq, row_index + 1,
                      CounterAdd(total_col_seqs, <<"GAP_ON_SET_BASE">>, <<1, 1>>))
    ELSE LET start_seq == JoinCells(SubSeq(align_array[row_index + 1], start_col + 1,
                                           start_col + config.primer_size_min))
             results == wrap_walk(walk_right(align_array,
                                             start_col + config.primer_size_min,
                                             start_col, row_index, start_seq, config))
         IN  IF "N" \in Range(start_seq)
             THEN r_count_rows(align_array, config, start_col, min_freq, row_index + 1,
                               CounterAdd(total_col_seqs, <<"CONTAINS_INVALID_BASE">>,
                                          <<1, 1>>))
             ELSE IF start_seq = << >>
             THEN r_count_rows(align_array, config, start_col, min_freq, row_index + 1,
                               total_col_seqs)
             ELSE IF min_freq[1] = 0 /\ Range(results) \cap ERROR_SET # {}
             THEN EarlyReturn(parse_error(Range(results)))
             ELSE r_count_rows(align_array, config, start_col, min_freq, row_index + 1,
                               CounterUpdate(total_col_seqs, parse_error_list(results),
                                             <<1, Len(results)>>))

r_digest_to_count(align_array, config, start_col, min_freq) ==
    IF start_col + config.primer_size_min >= Len(align_array[1])
    THEN EarlyReturn(<<"WALKS_OUT">>)
    ELSE IF FracGt(GapFreq(align_array, start_col), min_freq)
    THEN EarlyReturn(<<"GAP_ON_SET_BASE">>)
    ELSE r_count_rows(align_array, config, start_col, min_freq, 0, << >>)

\* sum(seq_counts.values())
RECURSIVE FracSum(_)
FracSum(counter) ==
    IF counter = << >> THEN <<0, 1>> ELSE FracAdd(Head(counter)[2], FracSum(Tail(counter)))

\* the result is an error, or the dict of the strings kept with their shares
process_seqs_errors_dropped(seq_counts, min_freq, ignore_n) ==
    LET early == SelectSeq(seq_counts, LAMBDA e : e[2][1] = 0 - 1 /\ e[1] \in DIGESTION_ERROR)
        total_values == FracSum(seq_counts)
        above_freq_seqs ==
            SelectSeq(seq_counts, LAMBDA e : FracGt(FracDiv(e[2], total_values), min_freq))
    IN  IF early # << >> THEN [error |-> Head(early)[1], parsed_seqs |-> << >>]
        ELSE [error |-> << >>,
              parsed_seqs |-> SelectSeq(above_freq_seqs,
                                        LAMBDA e : e[1] \notin DIGESTION_ERROR)]

process_seqs(seq_counts, min_freq, ignore_n) ==
    LET early == SelectSeq(seq_counts, LAMBDA e : e[2][1] = 0 - 1 /\ e[1] \in DIGESTION_ERROR)
        counted == IF ignore_n
                   THEN SelectSeq(seq_counts, LAMBDA e : e[1] # <<"CONTAINS_INVALID_BASE">>)
                   ELSE seq_counts
        total_values == FracSum(counted)
        above_freq_seqs ==
            SelectSeq(counted, LAMBDA e : FracGt(FracDiv(e[2], total_values), min_freq))
        errors == SelectSeq(above_freq_seqs, LAMBDA e : e[1] \in DIGESTION_ERROR)
    IN  IF early # << >> THEN [error |-> Head(early)[1], parsed_seqs |-> << >>]
        ELSE IF errors # << >> THEN [error |-> Head(errors)[1], parsed_seqs |-> << >>]
        ELSE [error |-> << >>, parsed_seqs |-> above_freq_seqs]

\* PASS only if every member passes; the one check kept is the upper Tm limit
thermo_check_kmers(seqs, config) ==
    IF \E s \in seqs : calc_tm(s) > config.primer_tm_max THEN "HIGH_TM" ELSE "PASS"

parse_thermo_error(result) ==
    CASE result = "HIGH_TM" -> <<"THERMO_HIGH_TM">>

Failed(col, error) == [col |-> col, error |-> error]

f_digest_index_no_thermo(align_array, config, end_col, min_freq) ==
    LET seq_counts == f_digest_to_count(align_array, config, end_col, min_freq)
        tmp_parsed_seqs == process_seqs(seq_counts, min_freq, config.ignore_n)
        parsed_seqs == Keys(tmp_parsed_seqs.parsed_seqs)
    IN  IF tmp_parsed_seqs.error # << >> THEN Failed(end_col, tmp_parsed_seqs.error)
        ELSE IF do_pools_interact_py(parsed_seqs, parsed_seqs)
        THEN Failed(end_col, <<"DIMER_FAIL">>)
        ELSE IF parsed_seqs = {} THEN Failed(end_col, <<"NO_SEQUENCES">>)
        ELSE FKmer(end_col, parsed_seqs)

f_digest_index(align_array, config, end_col, min_freq) ==
    LET seq_counts == f_digest_to_count(align_array, config, end_col, min_freq)
        tmp_parsed_seqs == process_seqs(seq_counts, min_freq, config.ignore_n)
        parsed_seqs == Keys(tmp_parsed_seqs.parsed_seqs)
        thermo_result == thermo_check_kmers(parsed_seqs, config)
    IN  IF tmp_parsed_seqs.error # << >> THEN Failed(end_col, tmp_parsed_seqs.error)
        ELSE IF thermo_result # "PASS"
        THEN Failed(end_col, parse_thermo_error(thermo_result))
        ELSE IF do_pools_interact_py(parsed_seqs, parsed_seqs)
        THEN Failed(end_col, <<"DIMER_FAIL">>)
        ELSE IF parsed_seqs = {} THEN Failed(end_col, <<"NO_SEQUENCES">>)
        ELSE FKmer(end_col, parsed_seqs)

r_digest_index(align_array, config, start_col, min_freq) ==
    LET seq_counts == r_digest_to_count(align_array, config, start_col, min_freq)
        tmp_parsed_seqs == process_seqs(seq_counts, min_freq, config.ignore_n)
        parsed_seqs == Keys(tmp_parsed_seqs.parsed_seqs)
        tmp_kmer == RKmer(start_col, { reverse_complement(seq) : seq \in parsed_seqs })
        thermo_result == thermo_check_kmers(tmp_kmer.seqs, config)
    IN  IF tmp_parsed_seqs.error # << >> THEN Failed(start_col, tmp_parsed_seqs.error)
        ELSE IF parsed_seqs = {} THEN Failed(start_col, <<"NO_SEQUENCES">>)
        ELSE IF thermo_result # "PASS"
        THEN Failed(start_col, parse_thermo_error(thermo_result))
        ELSE IF do_pools_interact_py(tmp_kmer.seqs, tmp_kmer.seqs)
        THEN Failed(start_col, <<"DIMER_FAIL">>)
        ELSE tmp_kmer

GG == <<"G", "G">>

Cells == {"A", "C", "M", "N", "-", ""}
DigestBaseRows == [1..MaxCols -> {"A", "C"}]

\* two rows of equal length that differ in at most one cell, in either order
DigestArrays ==
    UNION { { <<row, [row EXCEPT ![i] = c]>>, <<[row EXCEPT ![i] = c], row>> } :
              <<row, i, c>> \in DigestBaseRows \X (1..MaxCols) \X Cells }

DigestConfigs ==
    { [primer_size_min |-> 2, primer_tm_min |-> 8, primer_tm_max |-> t,
       primer_max_walk |-> 3, min_base_freq |-> f, ignore_n |-> n] :
        <<f, n, t>> \in { <<0, 1>>, <<1, 2>> } \X BOOLEAN \X {9, 11} }

\* the strings primaldimer reports as interacting
DigestDimerChoices == { {}, { {CC}, {GG} } }

InitDigest ==
    /\ cfg \in DigestConfigs
    /\ dimers \in DigestDimerChoices
    /\ (cfg.primer_tm_max = 9 => dimers = {})
    /\ call \in [align_array : DigestArrays, col : 0..(MaxCols - 1)]
    /\ db = {}
    /\ msas = <<>>
    /\ pools = SchemeInit(1).pools
    /\ matches = SchemeInit(1).matches
    /\ current_pool = 0
    /\ last_pp_added = <<>>
    /\ cur = -1
    /\ ret = "None"
    /\ pre = SchemeInit(1)
    /\ phase = "CALL"
    /\ out = <<>>

FDigestIndex ==
    /\ phase = "CALL"
    /\ Returns("f_digest_index",
               f_digest_index(call.align_array, cfg, call.col, cfg.min_base_freq))

RDigestIndex ==
    /\ phase = "CALL"
    /\ Returns("r_digest_index",
               r_digest_index(call.align_array, cfg, call.col, cfg.min_base_freq))

NextDigest == FDigestIndex \/ RDigestIndex

SpecDigest == InitDigest /\ [][NextDigest]_vars

Emitted == ret \in {"f_digest_index", "r_digest_index"} /\ "seqs" \in DOMAIN out
Strict == cfg.min_base_freq[1] = 0
Rows == 1..Len(call.align_array)

\* the cells of row r in the first primer_size_min columns of the kmer, gaps removed
RowWindow(r) ==
    IF ret = "f_digest_index"
    THEN JoinCells(SubSeq(call.align_array[r], call.col - cfg.primer_size_min + 1, call.col))
    ELSE JoinCells(SubSeq(call.align_array[r], call.col + 1,
                          call.col + cfg.primer_size_min))

\* what the walk of row r from its window returns
RowWalk(r) ==
    IF ret = "f_digest_index"
    THEN wrap_walk(walk_left(call.align_array, call.col, call.col - cfg.primer_size_min,
                             r - 1, RowWindow(r), cfg))
    ELSE wrap_walk(walk_right(call.align_array, call.col + cfg.primer_size_min, call.col,
                              r - 1, RowWindow(r), cfg))

GapOnAnchor(r) == call.align_array[r][call.col + 1] = "-"
InvalidWindow(r) == ~GapOnAnchor(r) /\ "N" \in Range(RowWindow(r))
WalkErrors(r) ==
    IF GapOnAnchor(r) \/ "N" \in Range(RowWindow(r)) \/ RowWindow(r) = << >>
    THEN {}
    ELSE Range(RowWalk(r)) \cap ERROR_SET

\* row r produced a digestion error at the column
RowErrored(r) == GapOnAnchor(r) \/ InvalidWindow(r) \/ WalkErrors(r) # {}

WindowInRange ==
    IF ret = "f_digest_index"
    THEN call.col - cfg.primer_size_min >= 0
    ELSE call.col + cfg.primer_size_min < Len(call.align_array[1])

\* the error kinds that occur among the rows of the column and their walk branches
PresentKinds ==
    { <<"GAP_ON_SET_BASE">> : r \in { q \in Rows : GapOnAnchor(q) } } \cup
    { <<"CONTAINS_INVALID_BASE">> : r \in { q \in Rows : InvalidWindow(q) } } \cup
    UNION { { parse_error({e}) : e \in WalkErrors(r) } : r \in Rows }

\* INVALID_BASE > GAP_ON_SET_BASE > WALKS_OUT > RECURSION > WALKS_TOO_FAR > OTHER
ErrorRanking ==
    <<"CONTAINS_INVALID_BASE", "GAP_ON_SET_BASE", "WALKS_OUT", "CUSTOM_RECURSION_ERROR",
      "WALK_TO_FAR", "CUSTOM_ERRORS">>

HighestRanked(kinds) ==
    <<ErrorRanking[CHOOSE i \in 1..Len(ErrorRanking) :
                     /\ <<ErrorRanking[i]>> \in kinds
                     /\ \A j \in 1..(i - 1) : <<ErrorRanking[j]>> \notin kinds]>>

\* C15: when a column is rejected in strict mode and error kinds occur among
\* its rows and walk branches, the error reported for the column is the
\* highest-ranked kind present, in the order INVALID_BASE > GAP_ON_SET_BASE >
\* WALKS_OUT > RECURSION > WALKS_TOO_FAR > OTHER, whatever the order of the rows.
C15_ReportsHighestRanked ==
    (/\ ret \in {"f_digest_index", "r_digest_index"}
     /\ Strict
     /\ ~cfg.ignore_n
     /\ WindowInRange
     /\ "error" \in DOMAIN out
     /\ PresentKinds # {})
        => out.error = HighestRanked(PresentKinds)

Permissive == cfg.min_base_freq[1] > 0

\* the strings that the walks of the rows end in
SuccessStrings == UNION { Range(RowWalk(r)) \ ERROR_SET :
                            r \in { q \in Rows : ~GapOnAnchor(q) /\ RowWindow(q) # << >>
                                                  /\ "N" \notin Range(RowWindow(q)) } }

\* the number of rows that contributed string s
RowsWith(s) ==
    Cardinality({ r \in Rows : /\ ~GapOnAnchor(r)
                               /\ RowWindow(r) # << >>
                               /\ "N" \notin Range(RowWindow(r))
                               /\ s \in Range(RowWalk(r)) })

\* the strings whose share of the rows is not below min_base_freq
Retained ==
    { s \in SuccessStrings :
        RowsWith(s) * cfg.min_base_freq[2] >= cfg.min_base_freq[1] * Len(call.align_array) }

\* the set the digestion went on with, in the orientation of the walk
KeptStrings ==
    IF "seqs" \notin DOMAIN out THEN {}
    ELSE IF ret = "f_digest_index" THEN out.seqs
    ELSE { reverse_complement(s) : s \in out.seqs }

\* C16: with min_base_freq > 0 a success string is dropped exactly when its
\* share of the rows is below min_base_freq (a share equal to the threshold is
\* kept), and the column is kept whenever the retained set is non-empty, even
\* if some rows produced errors.
C16_ThresholdKeepsEqualShare ==
    (/\ ret \in {"f_digest_index", "r_digest_index"}
     /\ Permissive
     /\ WindowInRange
     /\ Retained # {}
     /\ ~("error" \in DOMAIN out /\ out.error \in { <<"THERMO_HIGH_TM">>, <<"DIMER_FAIL">> }))
        => "seqs" \in DOMAIN out /\ KeptStrings = Retained

\* C17: when ignore_n is set, rows whose digestion failed with INVALID_BASE (an
\* N in the initial window or an N reached during the walk) are discarded and
\* never cause the column to be rejected with CONTAINS_INVALID_BASE.
C17_IgnoreNNeverRejects ==
    (ret \in {"f_digest_index", "r_digest_index"} /\ cfg.ignore_n)
        => ~("error" \in DOMAIN out /\ out.error = <<"CONTAINS_INVALID_BASE">>)

\* C18: every FKmer and RKmer the digestion returns has a non-empty set of
\* sequences that passes thermo_check_kmers and does not interact with itself.
C18_EmittedPassesGates ==
    Emitted =>
        /\ out.seqs # {}
        /\ thermo_check_kmers(out.seqs, cfg) = "PASS"
        /\ ~do_pools_interact_py(out.seqs, out.seqs)

\* a kmer of two sequences was returned under the tighter Tm limit
C18_Witness ==
    /\ Emitted
    /\ Cardinality(out.seqs) = 2
    /\ cfg.primer_tm_max = 9

\* the cells of row r that a kmer string of length n lies on, gaps removed
RowSpan(r, n) ==
    IF ret = "f_digest_index"
    THEN JoinCells(SubSeq(call.align_array[r], call.col - n + 1, call.col))
    ELSE JoinCells(SubSeq(call.align_array[r], call.col + 1, call.col + n))

\* a kmer string as it reads along the alignment
Aligned(s) == IF ret = "f_digest_index" THEN s ELSE reverse_complement(s)

\* C19: for every FKmer emitted at column c with min_base_freq = 0 and every
\* row r of the MSA, truncated rows and rows with an empty window included,
\* some s of its sequences is an ambiguity expansion of MSA[r, c-|s| : c] with
\* gaps removed; likewise for every emitted RKmer and MSA[r, c : c+|s|].
C19_EveryRowCovered ==
    (Emitted /\ Strict /\ ~cfg.ignore_n) =>
        \A r \in Rows :
            \E s \in out.seqs : Aligned(s) \in expand_ambs({RowSpan(r, Len(s))})

\* C20: in the forward digestion of column c, a row whose window
\* MSA[r, c-L_min : c] has fewer than L_min characters after gaps are stripped
\* fails with WALKS_OUT and contributes no success string.
C20_ShortWindowWalksOut ==
    (ret = "f_digest_index" /\ WindowInRange) =>
        \A r \in Rows :
            (/\ ~GapOnAnchor(r)
             /\ Len(RowWindow(r)) < cfg.primer_size_min
             /\ "N" \notin Range(RowWindow(r)))
                => /\ Range(RowWalk(r)) = { <<"WalksOut">> }
                   /\ (Strict => "error" \in DOMAIN out)

----------------------------------------------------------------------------
(* Pair generator, kmer classes and BED files                              *)

\* the pairs (f, r) of the two lists with r.start in the window of f
InWindow(f, r) ==
    /\ r.start >= Min({ f.end - Len(x) : x \in f.seqs }) + call.amplicon_size_min
    /\ r.start <= Min({ f.end - Len(x) : x \in f.seqs }) + call.amplicon_size_max

\* C21: generate_valid_primerpairs returns exactly the pairs (f, r) with
\* r.start in [min(f.starts) + amplicon_size_min, min(f.starts) + amplicon_size_max]
\* whose oligos do not dimerise, each once, ordered by fprimer.end ascending
\* and, for equal fprimer.end, by rprimer.start descending.
C21_PairsExactAndOrdered ==
    ret = "generate_valid_primerpairs" =>
        /\ { <<out[i].fprimer, out[i].rprimer>> : i \in 1..Len(out) } =
              { <<f, r>> \in Range(call.fkmers) \X Range(call.rkmers) :
                  /\ InWindow(f, r)
                  /\ \A a \in f.seqs, b \in r.seqs : {a, b} \notin dimers }
        /\ \A i, j \in 1..Len(out) :
              (i # j) => <<out[i].fprimer, out[i].rprimer>> # <<out[j].fprimer, out[j].rprimer>>
        /\ \A i, j \in 1..Len(out) :
              (i < j) => \/ out[i].fprimer.end < out[j].fprimer.end
                         \/ /\ out[i].fprimer.end = out[j].fprimer.end
                            /\ out[i].rprimer.start >= out[j].rprimer.start

\* a call that returned two pairs of one FKmer and dropped a dimerising pair
\* that lay in the window
C21_Witness ==
    /\ ret = "generate_valid_primerpairs"
    /\ \E i, j \in 1..Len(out) : i < j /\ out[i].fprimer = out[j].fprimer
    /\ \E f \in Range(call.fkmers), r \in Range(call.rkmers) :
          InWindow(f, r) /\ \E a \in f.seqs, b \in r.seqs : {a, b} \in dimers


----------------------------------------------------------------------------
\* Solver operations: first pair, overlap, backtrack, circular

\* the operation that last returned was add_first_primer_pair
AfterAddFirst == ret \in {"ADDED_FIRST_PRIMERPAIR", "NO_FIRST_PRIMERPAIR", "False"}

\* the candidate list of the MSA the solver is on
CurrentCands == IF cur >= 0 THEN msas[cur + 1].primerpairs ELSE <<>>

EmptyPools(S) == { p \in 0..(cfg.npools - 1) : S.pools[p] = <<>> }

\* pool p of S passes the dimer check and the mispriming check for pp
PassesBoth(S, pp, p) ==
    /\ \A a \in all_seqs(pp), b \in PoolSeqs(S, p) : {a, b} \notin dimers
    /\ ~Misprimes(S, p, pp)

\* the solver went from pre to its present state by placing pp in pool p
PlacedInto(pp, p) ==
    /\ Len(last_pp_added) = Len(pre.last_pp_added) + 1
    /\ SubSeq(last_pp_added, 1, Len(pre.last_pp_added)) = pre.last_pp_added
    /\ Last(last_pp_added).fprimer = pp.fprimer
    /\ Last(last_pp_added).rprimer = pp.rprimer
    /\ Last(last_pp_added).pool = p
    /\ pools = [pre.pools EXCEPT ![p] = Append(@, Last(last_pp_added))]

FirstFits == { ip \in (1..Len(CurrentCands)) \X (0..(cfg.npools - 1)) : PassesBoth(pre, CurrentCands[ip[1]], ip[2]) }

\* C22: add_first_pair places the first candidate into the lowest-index empty
\* pool when an empty pool exists; otherwise it places the first candidate, in
\* list order, for which some pool passes both the dimer check and the
\* mispriming check, into the lowest-index such pool; it returns
\* NO_FIRST_PRIMERPAIR with the state unchanged when no candidate passes.
C22_AddFirstPlacement ==
    AfterAddFirst =>
        /\ (EmptyPools(pre) # {}) =>
              /\ ret = "ADDED_FIRST_PRIMERPAIR"
              /\ CurrentCands # <<>>
              /\ PlacedInto(CurrentCands[1], Min(EmptyPools(pre)))
        /\ (EmptyPools(pre) = {} /\ FirstFits # {}) =>
              /\ ret = "ADDED_FIRST_PRIMERPAIR"
              /\ LET i == Min({ ip[1] : ip \in FirstFits })
                 IN  PlacedInto(CurrentCands[i], Min({ ip[2] : ip \in { x \in FirstFits : x[1] = i } }))
        /\ (EmptyPools(pre) = {} /\ FirstFits = {}) =>
              /\ ret = "NO_FIRST_PRIMERPAIR"
              /\ Scheme = pre

\* the same for a candidate list that is not empty
C22_AddFirstPlacementNonEmpty ==
    (AfterAddFirst /\ CurrentCands # <<>>) =>
        /\ (EmptyPools(pre) # {}) =>
              /\ ret = "ADDED_FIRST_PRIMERPAIR"
              /\ PlacedInto(CurrentCands[1], Min(EmptyPools(pre)))
        /\ (EmptyPools(pre) = {} /\ FirstFits # {}) =>
              /\ ret = "ADDED_FIRST_PRIMERPAIR"
              /\ LET i == Min({ ip[1] : ip \in FirstFits })
                 IN  PlacedInto(CurrentCands[i], Min({ ip[2] : ip \in { x \in FirstFits : x[1] = i } }))
        /\ (EmptyPools(pre) = {} /\ FirstFits = {}) =>
              /\ ret = "NO_FIRST_PRIMERPAIR"
              /\ Scheme = pre

\* no pool was empty and the candidate placed was not the first of the list
C22_Witness ==
    /\ ret = "ADDED_FIRST_PRIMERPAIR"
    /\ EmptyPools(pre) = {}
    /\ Min({ ip[1] : ip \in FirstFits }) > 1

C22_WitnessNone ==
    /\ ret = "NO_FIRST_PRIMERPAIR"
    /\ CurrentCands # <<>>


\* C23: whenever try_overlap returns ADDED_OVERLAP the newly placed pair is in
\* a pool different from the pool of the previously last pair; with
\* n_pools = 1 try_overlap always returns NO_OVERLAP and leaves the solver
\* state unchanged.
C23_OverlapChangesPool ==
    /\ [](ret = "ADDED_OL_PRIMERPAIR" =>
            /\ Len(last_pp_added) = Len(pre.last_pp_added) + 1
            /\ Last(last_pp_added).pool # Top(pre).pool
            /\ Last(last_pp_added) = Last(pools[Last(last_pp_added).pool]))
    /\ [][(TryOverlap /\ cfg.npools = 1) =>
            /\ ret' = "NO_OL_PRIMERPAIR"
            /\ <<pools', matches', current_pool', last_pp_added'>> =
                  <<pools, matches, current_pool, last_pp_added>>]_vars

\* try_overlap placed a pair in a pool that already held one, and try_overlap
\* has also been refused with two pools
C23_Witness ==
    /\ ret = "ADDED_OL_PRIMERPAIR"
    /\ cfg.npools = 2
    /\ Len(pools[Last(last_pp_added).pool]) >= 2

C23_WitnessOnePool ==
    /\ ret = "NO_OL_PRIMERPAIR"
    /\ cfg.npools = 1
    /\ find_ol_primerpairs(Scheme, CurrentCands, cfg.min_overlap) # <<>>


\* the same kmers, whatever pool and amplicon number the pairs carry
SameKmers(pp, qq) == pp.fprimer = qq.fprimer /\ pp.rprimer = qq.rprimer

\* pp is in the overlap window find_ol_primerpairs computes, with overlap
\* minoverlap, when last is the pair on top of the stack
InOverlapWindow(pp, last, minoverlap) ==
    LET on_top == [Scheme EXCEPT !.last_pp_added = <<last>>]
        window == find_ol_primerpairs(on_top, CurrentCands, minoverlap)
    IN  \E i \in 1..Len(window) : SameKmers(window[i], pp)

\* the stack is the pre-call stack with its top replaced by a different pair of
\* the same overlap window in the same pool
TopReplaced ==
    LET n == Len(pre.last_pp_added)
    IN  /\ Len(last_pp_added) >= n
        /\ \A i \in 1..(n - 1) : last_pp_added[i] = pre.last_pp_added[i]
        /\ ~SameKmers(last_pp_added[n], Top(pre))
        /\ last_pp_added[n].pool = Top(pre).pool
        /\ InOverlapWindow(last_pp_added[n], pre.last_pp_added[n - 1], 1)

\* C24: whenever try_backtrack returns ADDED_BACKTRACK, the last-added stack
\* equals the pre-call stack with its top replaced by a different pair taken
\* from the same overlap window and placed in the same pool, followed by
\* exactly one further pair that a subsequent try_overlap placed; a replacement
\* is never left installed without a successful try_overlap after it.
C24_BacktrackReplacesAndOverlaps ==
    /\ ret = "ADDED_BACKTRACKED" =>
          LET n == Len(pre.last_pp_added)
          IN  /\ TopReplaced
              /\ Len(last_pp_added) = n + 1
              /\ last_pp_added[n + 1].pool # last_pp_added[n].pool
              /\ InOverlapWindow(last_pp_added[n + 1], last_pp_added[n], cfg.min_overlap)
    /\ ret = "NO_BACKTRACK" =>
          /\ Len(last_pp_added) = Len(pre.last_pp_added)
          /\ \A i \in 1..Len(last_pp_added) :
                /\ SameKmers(last_pp_added[i], pre.last_pp_added[i])
                /\ last_pp_added[i].pool = pre.last_pp_added[i].pool

\* try_backtrack replaced the top of the stack and returned ADDED_BACKTRACK
\* with no pair placed after the replacement
C24_ReplacementLeftAlone ==
    /\ ret = "ADDED_BACKTRACKED"
    /\ TopReplaced
    /\ Len(last_pp_added) = Len(pre.last_pp_added)


\* the pair try_circular placed, and the first and last pair it saw
CircularPair == Last(last_pp_added)

\* pool p of S takes the circular candidate pp: no clash with the pool's last
\* pair nor with its first pair, and no dimer with the oligos of the pool
CircularPoolTakes(S, p, pp) ==
    /\ S.pools[p] # <<>>
    /\ ~(/\ Last(S.pools[p]).msa_index = pp.msa_index
         /\ Max(ends(Last(S.pools[p]).rprimer)) >= Min(starts(pp.fprimer)))
    /\ ~(/\ S.pools[p][1].msa_index = pp.msa_index
         /\ Min(starts(S.pools[p][1].fprimer)) <= Max(ends(pp.rprimer)))
    /\ \A a \in all_seqs(pp), b \in PoolSeqs(S, p) : {a, b} \notin dimers

C25_Wraps == (ret = "ADDED_CIRULAR") => CircularPair.fprimer.end > CircularPair.rprimer.start

C25_InWindows ==
    (ret = "ADDED_CIRULAR") =>
        /\ CircularPair.fprimer.end < Top(pre).rprimer.start
        /\ Top(pre).rprimer.start - CircularPair.fprimer.end < CircularWindow
        /\ CircularPair.rprimer.start > pre.last_pp_added[1].fprimer.end
        /\ CircularPair.rprimer.start - pre.last_pp_added[1].fprimer.end < CircularWindow

C25_Fewest ==
    (ret = "ADDED_CIRULAR") =>
        LET cands == circular_candidates(pre, msas[cur + 1])
        IN  \A i \in 1..Len(cands) :
               (/\ \A a \in cands[i].fprimer.seqs, b \in cands[i].rprimer.seqs : {a, b} \notin dimers
                /\ \E p \in 0..(cfg.npools - 1) : CircularPoolTakes(pre, p, cands[i]))
               => n_all_seqs(CircularPair) <= n_all_seqs(cands[i])

\* C25: every pair placed by try_circular wraps the genome end
\* (fprimer.end > rprimer.start), its FKmer ends less than 200 columns before
\* the last amplicon's rprimer.start and its RKmer starts less than 200 columns
\* after the first amplicon's fprimer.end; among the candidates that satisfy
\* the pool constraints the one with the fewest oligo sequences is placed.
C25_CircularPairLaw == C25_Wraps /\ C25_InWindows /\ C25_Fewest


----------------------------------------------------------------------------
\* BED files: PrimerPair.to_bed and read_in_bedprimerpairs
\* (primalscheme3/core).  A text is the sequence of its characters.

TAB == "\t"
NL == "\n"

\* str(n) of an integer
RECURSIVE StrOfInt(_)
StrOfInt(n) ==
    IF n < 0 THEN <<"-">> \o StrOfInt(0 - n)
    ELSE IF n < 10 THEN <<(<<"0", "1", "2", "3", "4", "5", "6", "7", "8", "9">>)[n + 1]>>
    ELSE StrOfInt(n \div 10) \o StrOfInt(n % 10)

DigitValue(c) ==
    CASE c = "0" -> 0 [] c = "1" -> 1 [] c = "2" -> 2 [] c = "3" -> 3 [] c = "4" -> 4
      [] c = "5" -> 5 [] c = "6" -> 6 [] c = "7" -> 7 [] c = "8" -> 8 [] c = "9" -> 9

IsDigits(s) == s # <<>> /\ \A i \in 1..Len(s) : s[i] \in {"0", "1", "2", "3", "4", "5", "6", "7", "8", "9"}

\* int(s) accepts an optional sign and decimal digits
IsInt(s) == IsDigits(s) \/ (s # <<>> /\ s[1] \in {"-", "+"} /\ IsDigits(Tail(s)))

RECURSIVE DigitsValue(_)
DigitsValue(s) == IF s = <<>> THEN 0 ELSE 10 * DigitsValue(Front(s)) + DigitValue(Last(s))

IntOfStr(s) ==
    IF s[1] = "-" THEN 0 - DigitsValue(Tail(s))
    ELSE IF s[1] = "+" THEN DigitsValue(Tail(s))
    ELSE DigitsValue(s)

\* the order of the characters that oligo and chromosome names are made of
CodePoint(c) ==
    CASE c = "A" -> 65 [] c = "C" -> 67 [] c = "G" -> 71 [] c = "T" -> 84
      [] c = "a" -> 97 [] c = "b" -> 98 [] c = "p" -> 112 [] c = "q" -> 113

\* a < b for two strings
RECURSIVE StrLess(_, _)
StrLess(a, b) ==
    IF b = <<>> THEN FALSE
    ELSE IF a = <<>> THEN TRUE
    ELSE IF a[1] # b[1] THEN CodePoint(a[1]) < CodePoint(b[1])
    ELSE StrLess(Tail(a), Tail(b))

\* sorted(seqs) of a set of strings
RECURSIVE sorted(_)
sorted(S) ==
    IF S = {} THEN <<>>
    ELSE LET first == CHOOSE x \in S : \A y \in S \ {x} : StrLess(x, y)
         IN  <<first>> \o sorted(S \ {first})

\* str.join of a list of strings
RECURSIVE Concat(_)
Concat(parts) == IF parts = <<>> THEN <<>> ELSE Head(parts) \o Concat(Tail(parts))

\* variant: the oligos are numbered from 0
FKmer_str_from_zero(fkmer, reference, amplicon_prefix, pool) ==
    LET seqs == sorted(fkmer.seqs)
    IN  Concat([i \in 1..Len(seqs) |->
            reference \o <<TAB>> \o StrOfInt(fkmer.end - Len(seqs[i])) \o <<TAB>>
            \o StrOfInt(fkmer.end) \o <<TAB>>
            \o amplicon_prefix \o <<"_", "L", "E", "F", "T", "_">> \o StrOfInt(i - 1) \o <<TAB>>
            \o StrOfInt(pool) \o <<TAB, "+", TAB>> \o seqs[i] \o <<NL>>])

\* FKmer.__str__
FKmer_str(fkmer, reference, amplicon_prefix, pool) ==
    LET seqs == sorted(fkmer.seqs)
    IN  Concat([i \in 1..Len(seqs) |->
            reference \o <<TAB>> \o StrOfInt(fkmer.end - Len(seqs[i])) \o <<TAB>>
            \o StrOfInt(fkmer.end) \o <<TAB>>
            \o amplicon_prefix \o <<"_", "L", "E", "F", "T", "_">> \o StrOfInt(i) \o <<TAB>>
            \o StrOfInt(pool) \o <<TAB, "+", TAB>> \o seqs[i] \o <<NL>>])

\* RKmer.__str__
RKmer_str(rkmer, reference, amplicon_prefix, pool) ==
    LET seqs == sorted(rkmer.seqs)
    IN  Concat([i \in 1..Len(seqs) |->
            reference \o <<TAB>> \o StrOfInt(rkmer.start) \o <<TAB>>
            \o StrOfInt(rkmer.start + Len(seqs[i])) \o <<TAB>>
            \o amplicon_prefix \o <<"_", "R", "I", "G", "H", "T", "_">> \o StrOfInt(i) \o <<TAB>>
            \o StrOfInt(pool) \o <<TAB, "-", TAB>> \o seqs[i] \o <<NL>>])

\* PrimerPair.__str__, which to_bed returns
to_bed(pp) ==
    FKmer_str(pp.fprimer, pp.chrom_name,
              pp.amplicon_prefix \o <<"_">> \o StrOfInt(pp.amplicon_number), pp.pool + 1)
    \o RKmer_str(pp.rprimer, pp.chrom_name,
                 pp.amplicon_prefix \o <<"_">> \o StrOfInt(pp.amplicon_number), pp.pool + 1)

\* str.split(sep)
RECURSIVE split_on(_, _)
split_on(s, sep) ==
    IF \A i \in 1..Len(s) : s[i] # sep THEN <<s>>
    ELSE LET i == Min({ j \in 1..Len(s) : s[j] = sep })
         IN  <<SubSeq(s, 1, i - 1)>> \o split_on(SubSeq(s, i + 1, Len(s)), sep)

\* str.strip().split(): the runs of characters that are not white space
strip_split(s) ==
    LET blanked == [i \in 1..Len(s) |-> IF s[i] \in {" ", TAB, NL} THEN " " ELSE s[i]]
        NotEmpty(piece) == piece # <<>>
    IN  SelectSeq(split_on(blanked, " "), NotEmpty)

\* file.readlines(), without the line ends
readlines(text) ==
    LET pieces == split_on(text, NL)
    IN  IF Last(pieces) = <<>> THEN Front(pieces) ELSE pieces


\* the exception BedLine.__init__ raises on the fields of a line, or "None"
BedLineError(bedline) ==
    IF Len(bedline) < 7 THEN "IndexError"
    ELSE IF ~IsInt(bedline[2]) \/ ~IsInt(bedline[3]) \/ ~IsInt(bedline[5]) THEN "ValueError"
    ELSE IF Len(split_on(bedline[4], "_")) < 2 THEN "IndexError"
    ELSE IF ~IsInt(split_on(bedline[4], "_")[2]) THEN "ValueError"
    ELSE "None"

\* BedLine.__init__
BedLine(bedline) ==
    [ref |-> bedline[1],
     start |-> IntOfStr(bedline[2]),
     end |-> IntOfStr(bedline[3]),
     primername |-> bedline[4],
     pool |-> IntOfStr(bedline[5]) - 1,
     direction |-> bedline[6],
     sequence |-> bedline[7],
     amplicon_number |-> IntOfStr(split_on(bedline[4], "_")[2])]

\* primerpairs.sort(key=lambda x: (x.chromname, x.amplicon_number)) of pairs
\* that differ in the key
RECURSIVE SortByChromAndNumber(_)
SortByChromAndNumber(S) ==
    IF S = {} THEN <<>>
    ELSE LET Before(x, y) == \/ StrLess(x.chromname, y.chromname)
                             \/ /\ x.chromname = y.chromname
                                /\ x.amplicon_number < y.amplicon_number
             first == CHOOSE x \in S : \A y \in S \ {x} : Before(x, y)
         IN  <<first>> \o SortByChromAndNumber(S \ {first})

\* read_in_bedprimerpairs on the text of a file: the exception it raises, or
\* "None" and the list of BedPrimerPairs
read_in_bedprimerpairs(text) ==
    LET lines == readlines(text)
        errors == [i \in 1..Len(lines) |-> BedLineError(strip_split(lines[i]))]
        Raised(e) == e # "None"
        bed_lines == [i \in 1..Len(lines) |-> BedLine(strip_split(lines[i]))]
        keys == { <<bed_lines[i].ref, bed_lines[i].amplicon_number>> : i \in 1..Len(lines) }
        OneStrand(key) ==
            \/ \A i \in 1..Len(lines) :
                  (bed_lines[i].ref = key[1] /\ bed_lines[i].amplicon_number = key[2])
                      => bed_lines[i].direction # <<"+">>
            \/ \A i \in 1..Len(lines) :
                  (bed_lines[i].ref = key[1] /\ bed_lines[i].amplicon_number = key[2])
                      => bed_lines[i].direction # <<"-">>
        Pair(key) ==
            LET OfRef(x) == x.ref = key[1]
                OfAmplicon(x) == x.amplicon_number = key[2]
                Plus(x) == x.direction = <<"+">>
                Minus(x) == x.direction = <<"-">>
                ref_bed_lines == SelectSeq(bed_lines, OfRef)
                ampliconlines == SelectSeq(ref_bed_lines, OfAmplicon)
            IN  [fprimer |-> FKmer(SelectSeq(ampliconlines, Plus)[1].end,
                                   { x.sequence : x \in Range(SelectSeq(ampliconlines, Plus)) }),
                 rprimer |-> RKmer(SelectSeq(ampliconlines, Minus)[1].start,
                                   { x.sequence : x \in Range(SelectSeq(ampliconlines, Minus)) }),
                 msa_index |-> "None",
                 chromname |-> key[1],
                 ampliconprefix |-> split_on(ref_bed_lines[1].primername, "_")[1],
                 amplicon_number |-> key[2],
                 pool |-> ampliconlines[1].pool]
    IN  IF SelectSeq(errors, Raised) # <<>>
        THEN [error |-> SelectSeq(errors, Raised)[1], pairs |-> <<>>]
        ELSE IF \E key \in keys : OneStrand(key)
        THEN [error |-> "IndexError", pairs |-> <<>>]
        ELSE [error |-> "None", pairs |-> SortByChromAndNumber({ Pair(key) : key \in keys })]

MaxBedPairs == 2

\* the kmers of a pair: one oligo each, or two oligos of different lengths each
BedKmers ==
    { <<FKmer(12, {GT}), RKmer(20, {CA})>>, <<FKmer(12, {AC, TAC}), RKmer(20, {CAT, CA})>> }

\* the primer pairs a file is written from: amplicons 0 and 1 alternate between
\* the two pools
BedPairs ==
    { [fprimer |-> k[1], rprimer |-> k[2], amplicon_number |-> n, pool |-> 1 - n,
       chrom_name |-> c, amplicon_prefix |-> x] :
         k \in BedKmers, n \in {0, 1},
         c \in { <<"a">>, <<"b">> }, x \in { <<"p">>, <<"q">> } }

InitBed ==
    /\ NoScheme
    /\ cfg = DefaultCfg
    /\ db = {}
    /\ call \in UNION { [1..n -> BedPairs] : n \in 0..MaxBedPairs }

\* every pair of the list is written with to_bed
ToBed ==
    /\ phase = "CALL"
    /\ phase' = "TEXT"
    /\ ret' = "to_bed"
    /\ out' = Concat([i \in 1..Len(call) |-> to_bed(call[i])])
    /\ UNCHANGED <<cfg, db, dimers, msas, pools, matches, current_pool, last_pp_added,
                   cur, pre, call>>

\* the text is read back
ReadInBedprimerpairs ==
    /\ phase = "TEXT"
    /\ Returns("read_in_bedprimerpairs", read_in_bedprimerpairs(out))

NextBed == ToBed \/ ReadInBedprimerpairs

SpecBed == InitBed /\ [][NextBed]_vars


\* the lines written for the pairs before the k-th pair of the list
RECURSIVE LinesBefore(_)
LinesBefore(k) ==
    IF k <= 1 THEN 0
    ELSE LinesBefore(k - 1) + Cardinality(call[k - 1].fprimer.seqs)
                            + Cardinality(call[k - 1].rprimer.seqs)

\* the tab-separated fields of the i-th line written for the k-th pair
WrittenLine(k, i) == split_on(readlines(out)[LinesBefore(k) + i], TAB)

\* line i of pair k is the line of oligo number i of the kmer on that strand
IsOligoLine(k, i, number, strand, side, seqs, from, to) ==
    LET line == WrittenLine(k, i)
    IN  /\ Len(line) = 7
        /\ line[1] = call[k].chrom_name
        /\ line[7] \in seqs
        /\ IsInt(line[2]) /\ IntOfStr(line[2]) = from + (IF strand = "+" THEN 0 - Len(line[7]) ELSE 0)
        /\ IsInt(line[3]) /\ IntOfStr(line[3]) = to + (IF strand = "-" THEN Len(line[7]) ELSE 0)
        /\ split_on(line[4], "_") = <<call[k].amplicon_prefix, StrOfInt(call[k].amplicon_number),
                                      side, StrOfInt(number)>>
        /\ IsInt(line[5]) /\ IntOfStr(line[5]) = call[k].pool + 1
        /\ line[6] = <<strand>>

\* C27: to_bed of a pair emits one line per oligo, all forward lines before all
\* reverse lines, each group in sorted sequence order and numbered from 1
\* (_LEFT_i / _RIGHT_i); a forward line spans [end - len(seq), end) with strand
\* '+', a reverse line spans [start, start + len(seq)) with strand '-', and the
\* pool column is the internal 0-based pool plus 1.
C27_ToBedLines ==
    ret = "to_bed" =>
        /\ Len(readlines(out)) = LinesBefore(Len(call) + 1)
        /\ \A k \in 1..Len(call) :
              LET nf == Cardinality(call[k].fprimer.seqs)
                  nr == Cardinality(call[k].rprimer.seqs)
              IN  /\ \A i \in 1..nf :
                         IsOligoLine(k, i, i, "+", <<"L", "E", "F", "T">>, call[k].fprimer.seqs,
                                     call[k].fprimer.end, call[k].fprimer.end)
                  /\ \A i \in 1..nr :
                         IsOligoLine(k, nf + i, i, "-", <<"R", "I", "G", "H", "T">>,
                                     call[k].rprimer.seqs, call[k].rprimer.start,
                                     call[k].rprimer.start)
                  /\ \A i, j \in 1..nf : (i < j) => StrLess(WrittenLine(k, i)[7], WrittenLine(k, j)[7])
                  /\ \A i, j \in 1..nr :
                         (i < j) => StrLess(WrittenLine(k, nf + i)[7], WrittenLine(k, nf + j)[7])

\* a pair with two forward oligos of different lengths and two reverse oligos
\* was written
C27_Witness ==
    /\ ret = "to_bed"
    /\ \E k \in 1..Len(call) :
          /\ Cardinality(call[k].fprimer.seqs) = 2
          /\ Cardinality(call[k].rprimer.seqs) = 2
          /\ WrittenLine(k, 1)[2] # WrittenLine(k, 2)[2]

\* what the round trip is to keep of a pair
KeptOfOriginal(pp) ==
    <<pp.chrom_name, pp.fprimer.end, pp.rprimer.start, pp.fprimer.seqs, pp.rprimer.seqs,
      pp.amplicon_number, pp.amplicon_prefix, pp.pool>>

KeptOfParsed(pp) ==
    <<pp.chromname, pp.fprimer.end, pp.rprimer.start, pp.fprimer.seqs, pp.rprimer.seqs,
      pp.amplicon_number, pp.ampliconprefix, pp.pool>>

\* the two lists hold the same pairs the same number of times
SamePairs(originals, parsed) ==
    /\ Len(originals) = Len(parsed)
    /\ \A i \in 1..Len(originals) :
          Cardinality({ j \in 1..Len(originals) : KeptOfOriginal(originals[j]) = KeptOfOriginal(originals[i]) })
              = Cardinality({ j \in 1..Len(parsed) : KeptOfParsed(parsed[j]) = KeptOfOriginal(originals[i]) })

\* C26: serialising a list of primer pairs to BED with to_bed and parsing the
\* text with read_in_bedprimerpairs yields pairs with the same chrom, FKmer
\* end, RKmer start, oligo sequence sets, amplicon number, amplicon prefix and
\* 0-based pool as the originals, for any number of pairs, chromosomes and
\* degenerate oligos per primer.
C26_BedRoundTrip ==
    ret = "read_in_bedprimerpairs" => (out.error = "None" /\ SamePairs(call, out.pairs))

\* the pairs of one chromosome carry one amplicon prefix and different amplicon
\* numbers
OnePrefixPerChrom ==
    \A i, j \in 1..Len(call) :
        (i # j /\ call[i].chrom_name = call[j].chrom_name) =>
            /\ call[i].amplicon_prefix = call[j].amplicon_prefix
            /\ call[i].amplicon_number # call[j].amplicon_number

C26_BedRoundTripOnePrefix ==
    (ret = "read_in_bedprimerpairs" /\ OnePrefixPerChrom) =>
        (out.error = "None" /\ SamePairs(call, out.pairs))


----------------------------------------------------------------------------
\* parse_bedfile (primal_digest/bedfiles.py): the primers of an input BED file
\* into their pools.  A primer is the number of its line and its 0-based pool.

MaxBedPrimers == 3

\* itertools.groupby(bed_primers, lambda primer: primer.pool): the runs of
\* consecutive primers of one pool
RECURSIVE groupby_pool(_)
groupby_pool(bed_primers) ==
    IF bed_primers = <<>> THEN <<>>
    ELSE LET key == bed_primers[1].pool
             others == { i \in 1..Len(bed_primers) : bed_primers[i].pool # key }
             n == IF others = {} THEN Len(bed_primers) ELSE Min(others) - 1
         IN  <<[key |-> key, group |-> SubSeq(bed_primers, 1, n)]>>
             \o groupby_pool(SubSeq(bed_primers, n + 1, Len(bed_primers)))

\* pool[pool_index].extend(group) for the groups from the i-th on
RECURSIVE extend_pools(_, _, _, _)
extend_pools(pool, groups, i, npools) ==
    IF i > Len(groups) THEN [error |-> "None", pool |-> pool]
    ELSE IF groups[i].key >= npools THEN [error |-> "IndexError", pool |-> pool]
    ELSE extend_pools([pool EXCEPT ![groups[i].key + 1] = @ \o groups[i].group],
                      groups, i + 1, npools)

\* parse_bedfile on the primers read_bedfile returned: how the call ends
\* (SystemExit from sys.exit, an IndexError, or a return) and the pool lists
parse_bedfile(bed_primers, npools) ==
    LET pools_in_bed == { bed_primers[i].pool : i \in 1..Len(bed_primers) }
    IN  IF Cardinality(pools_in_bed) > npools
        THEN [error |-> "SystemExit", pool |-> <<>>]
        ELSE extend_pools([p \in 1..npools |-> <<>>], groupby_pool(bed_primers), 1, npools)

\* the files have up to MaxBedPrimers lines in pools 0..MaxPools on disk pools
\* 1..MaxPools + 1
InitParse ==
    /\ NoScheme
    /\ cfg = DefaultCfg
    /\ db = {}
    /\ \E n \in 0..MaxBedPrimers, npools \in 1..MaxPools :
          \E pool_of \in [1..n -> 0..MaxPools] :
              call = [bed_primers |-> [i \in 1..n |-> [line |-> i, pool |-> pool_of[i]]],
                      npools |-> npools]

ParseBedfile ==
    /\ phase = "CALL"
    /\ Returns("parse_bedfile", parse_bedfile(call.bed_primers, call.npools))

NextParse == ParseBedfile

SpecParse == InitParse /\ [][NextParse]_vars

\* the BED uses a pool that does not exist under npools
UsesMissingPool == \E i \in 1..Len(call.bed_primers) : call.bed_primers[i].pool >= call.npools

\* every primer is in the pool list of its own pool, in the order of the lines
PlacedByPool ==
    /\ out.error = "None"
    /\ Len(out.pool) = call.npools
    /\ \A p \in 1..call.npools :
          LET InPool(primer) == primer.pool = p - 1
          IN  out.pool[p] = SelectSeq(call.bed_primers, InPool)

\* C30: parse_bedfile exits with a non-zero status whenever the input BED uses
\* a pool that does not exist under n_pools (any 0-based pool index >= npools);
\* otherwise every primer is placed in the pool list at its own 0-based pool
\* index, whatever the order of the lines.
C30_ExitsOnMissingPool ==
    ret = "parse_bedfile" =>
        /\ UsesMissingPool => out.error = "SystemExit"
        /\ ~UsesMissingPool => PlacedByPool

\* the call never returns pool lists when a pool is missing, and places every
\* primer by its pool otherwise
C30_NeverReturnsOnMissingPool ==
    ret = "parse_bedfile" =>
        /\ UsesMissingPool => out.error \in {"SystemExit", "IndexError"}
        /\ ~UsesMissingPool => PlacedByPool

\* the lines of a pool are not consecutive in the file
C30_WitnessInterleaved ==
    /\ ret = "parse_bedfile"
    /\ ~UsesMissingPool
    /\ Len(groupby_pool(call.bed_primers)) = 3


----------------------------------------------------------------------------
\* The kmer objects (primal_digest/classes.py): creation, starts / ends, remap,
\* __hash__ and __eq__.  seqs is held as the sequences in the order the
\* container gives them when it is iterated or printed; an entry of a mapping
\* array is <<>> for None and <<c>> for the column c.

MaxCoord == 2

\* FKmer.__init__
FKmer_init(end, seqs) ==
    [end |-> end, seqs |-> seqs, _starts |-> { end - Len(seqs[i]) : i \in 1..Len(seqs) }]

\* FKmer.starts
FKmer_starts(fkmer) == fkmer._starts

\* variant: the starts are not refreshed
FKmer_remap_stale(fkmer, mapping_array) ==
    IF mapping_array[fkmer.end + 1] # <<>>
    THEN [ret |-> "self", obj |-> [fkmer EXCEPT !.end = mapping_array[fkmer.end + 1][1]]]
    ELSE [ret |-> "None", obj |-> fkmer]

\* FKmer.remap: what it returns and the object afterwards
FKmer_remap(fkmer, mapping_array) ==
    IF mapping_array[fkmer.end + 1] # <<>>
    THEN LET end == mapping_array[fkmer.end + 1][1]
         IN  [ret |-> "self",
              obj |-> [fkmer EXCEPT !.end = end,
                                    !._starts = { end - Len(fkmer.seqs[i]) :
                                                    i \in 1..Len(fkmer.seqs) }]]
    ELSE [ret |-> "None", obj |-> fkmer]

\* FKmer.__hash__: the hash of the string f"{self.end}{self.seqs}", which is
\* the end followed by the sequences as the container prints them; the sorted
\* copy the method makes is not used
FKmer_hash(fkmer) == <<fkmer.end, fkmer.seqs>>

\* FKmer.__eq__
FKmer_eq(fkmer, other) == FKmer_hash(fkmer) = FKmer_hash(other)

\* RKmer.__init__
RKmer_init(start, seqs) ==
    [start |-> start, seqs |-> seqs, _ends |-> { Len(seqs[i]) + start : i \in 1..Len(seqs) }]

\* RKmer.ends
RKmer_ends(rkmer) == rkmer._ends

\* RKmer.remap
RKmer_remap(rkmer, mapping_array) ==
    IF mapping_array[rkmer.start + 1] # <<>>
    THEN LET start == mapping_array[rkmer.start + 1][1]
         IN  [ret |-> "self",
              obj |-> [rkmer EXCEPT !.start = start,
                                    !._ends = { Len(rkmer.seqs[i]) + start :
                                                  i \in 1..Len(rkmer.seqs) }]]
    ELSE [ret |-> "None", obj |-> rkmer]

\* RKmer.__hash__
RKmer_hash(rkmer) == <<rkmer.start, rkmer.seqs>>

\* RKmer.__eq__
RKmer_eq(rkmer, other) == RKmer_hash(rkmer) = RKmer_hash(other)

\* the sequences of a kmer in an order their container can give them
KmerStores == { <<AC>>, <<AC, TAC>>, <<TAC, AC>> }

\* the mapping arrays of a reference row: a column where the row has a gap maps
\* to None, the other columns are counted from 0
MappingArrays ==
    { [i \in 1..(MaxCoord + 1) |->
          IF i \in gaps THEN <<>>
          ELSE <<Cardinality({ j \in 1..(i - 1) : j \notin gaps })>>] :
        gaps \in SUBSET (1..(MaxCoord + 1)) }

\* two kmers of one kind, just created
InitKmer ==
    /\ dimers = {}
    /\ msas = <<>>
    /\ pools = SchemeInit(1).pools
    /\ matches = SchemeInit(1).matches
    /\ current_pool = 0
    /\ last_pp_added = <<>>
    /\ cur = -1
    /\ cfg = DefaultCfg
    /\ db = {}
    /\ phase = "__init__"
    /\ ret = "None"
    /\ call = <<>>
    /\ pre = <<>>
    /\ \E c, d \in 0..MaxCoord, s, t \in KmerStores :
          \/ out = [kind |-> "F", a |-> FKmer_init(c, s), b |-> FKmer_init(d, t)]
          \/ out = [kind |-> "R", a |-> RKmer_init(c, s), b |-> RKmer_init(d, t)]

\* a.remap(mapping_array)
Remap ==
    /\ \E mapping_array \in MappingArrays :
          LET r == IF out.kind = "F" THEN FKmer_remap(out.a, mapping_array)
                   ELSE RKmer_remap(out.a, mapping_array)
          IN  /\ call' = [mapping_array |-> mapping_array]
              /\ out' = [out EXCEPT !.a = r.obj]
              /\ ret' = r.ret
    /\ pre' = out.a
    /\ phase' = "remap"
    /\ UNCHANGED <<cfg, db, dimers, msas, pools, matches, current_pool, last_pp_added, cur>>

\* a == b
KmerEq ==
    /\ phase # "__eq__"
    /\ ret' = IF out.kind = "F"
              THEN (IF FKmer_eq(out.a, out.b) THEN "True" ELSE "False")
              ELSE (IF RKmer_eq(out.a, out.b) THEN "True" ELSE "False")
    /\ phase' = "__eq__"
    /\ UNCHANGED <<cfg, db, dimers, msas, pools, matches, current_pool, last_pp_added, cur,
                   pre, call, out>>

NextKmer == Remap \/ KmerEq

SpecKmer == InitKmer /\ [][NextKmer]_vars

\* the column a kmer is anchored at, and the columns its oligos reach
Coordinate(kmer) == IF out.kind = "F" THEN kmer.end ELSE kmer.start

DerivedEdges(kmer) ==
    IF out.kind = "F" THEN { kmer.end - Len(s) : s \in Range(kmer.seqs) }
    ELSE { kmer.start + Len(s) : s \in Range(kmer.seqs) }

ReportedEdges(kmer) == IF out.kind = "F" THEN FKmer_starts(kmer) ELSE RKmer_ends(kmer)

\* C28: for every FKmer, starts() equals { end - len(s) : s in seqs }, and for
\* every RKmer, ends() equals { start + len(s) : s in seqs }, at creation and
\* after any sequence of successful remap operations; a remap whose target
\* mapping entry is None returns None and leaves the kmer's coordinates
\* unchanged.
C28_EdgesFollowCoordinate ==
    /\ ReportedEdges(out.a) = DerivedEdges(out.a)
    /\ ReportedEdges(out.b) = DerivedEdges(out.b)
    /\ phase = "remap" =>
          IF call.mapping_array[Coordinate(pre) + 1] = <<>>
          THEN ret = "None" /\ out.a = pre
          ELSE /\ ret = "self"
               /\ Coordinate(out.a) = call.mapping_array[Coordinate(pre) + 1][1]
               /\ out.a.seqs = pre.seqs

\* a kmer of two oligos was moved by a remap, then a remap was refused
C28_Witness ==
    /\ phase = "remap"
    /\ ret = "None"
    /\ Len(out.a.seqs) = 2
    /\ out.a # (IF out.kind = "F" THEN FKmer_init(0, out.a.seqs) ELSE RKmer_init(0, out.a.seqs))
    /\ Coordinate(out.a) # Coordinate(out.b)

\* C29: two FKmers compare equal if and only if they have the same end and the
\* same set of sequences, regardless of the order in which the sequences are
\* stored or iterated (symmetrically for RKmers with start).
C29_EqualIffSameEndAndSeqs ==
    phase = "__eq__" =>
        ((ret = "True") <=> (/\ Coordinate(out.a) = Coordinate(out.b)
                             /\ Range(out.a.seqs) = Range(out.b.seqs)))

\* equality as the code decides it: the same anchor and the same sequences in
\* the same order
C29_EqualIffSameOrder ==
    phase = "__eq__" =>
        ((ret = "True") <=> (/\ Coordinate(out.a) = Coordinate(out.b)
                             /\ out.a.seqs = out.b.seqs))

----------------------------------------------------------------------------
(***************************************************************************)
(* The panel outer loop (panelcreate, panel_main.py 376-398).  Each        *)
(* iteration calls Panel.add_next_primerpair, whose outcome is any member  *)
(* of PanelReturn; the input BED file has already placed call.n_bed pairs. *)
(* out.counter is the loop counter, out.last_pp_added the number of pairs  *)
(* in panel._last_pp_added.                                                *)
(***************************************************************************)
MaxAmplicons == 5
MaxBedAdded == 2

PanelReturn == {"ADDED_PRIMERPAIR", "NO_PRIMERPAIRS", "NO_MORE_PRIMERPAIRS_IN_MSA",
                "MOVING_TO_NEW_MSA"}

\* the outcome is the only thing the loop sees of the call: ADDED_PRIMERPAIR
\* means that one pair was pushed on panel._last_pp_added
add_next_primerpair(n_pairs, outcome) ==
    IF outcome = "ADDED_PRIMERPAIR" THEN n_pairs + 1 ELSE n_pairs

\* one pass through the match statement: ADDED_PRIMERPAIR counts and
\* continues, NO_PRIMERPAIRS breaks, no other case is written
loop_body(S, outcome) ==
    [counter |-> IF outcome = "ADDED_PRIMERPAIR" THEN S.counter + 1 ELSE S.counter,
     last_pp_added |-> add_next_primerpair(S.last_pp_added, outcome),
     running |-> outcome # "NO_PRIMERPAIRS"]

InitPanel ==
    /\ NoScheme
    /\ cfg = DefaultCfg
    /\ db = {}
    /\ \E maxamplicons \in 0..MaxAmplicons, n_bed \in 0..MaxBedAdded :
          call = [maxamplicons |-> maxamplicons, n_bed |-> n_bed,
                  counter |-> 0, last_pp_added |-> n_bed, running |-> TRUE]

PanelVars == <<cfg, db, dimers, msas, pools, matches, current_pool, last_pp_added,
               cur, pre>>

\* while counter < cfg["maxamplicons"]: match panel.add_next_primerpair()
LoopIteration ==
    /\ phase \in {"CALL", "LOOP"}
    /\ call.counter < call.maxamplicons
    /\ \E outcome \in PanelReturn :
          LET S == loop_body(call, outcome)
          IN  /\ call' = [call EXCEPT !.counter = S.counter,
                                      !.last_pp_added = S.last_pp_added,
                                      !.running = S.running]
              /\ ret' = outcome
              /\ phase' = IF S.running THEN "LOOP" ELSE "DONE"
    /\ out' = call
    /\ UNCHANGED PanelVars

\* the while condition fails
LoopExit ==
    /\ phase \in {"CALL", "LOOP"}
    /\ call.counter >= call.maxamplicons
    /\ phase' = "DONE"
    /\ call' = [call EXCEPT !.running = FALSE]
    /\ out' = call
    /\ UNCHANGED <<ret>>
    /\ UNCHANGED PanelVars

NextPanel == LoopIteration \/ LoopExit

SpecPanel == InitPanel /\ [][NextPanel]_vars

\* the loop is scheduled until it is left
SpecPanelFair == SpecPanel /\ WF_vars(NextPanel)

\* pairs added by the loop
AddedByLoop == call.last_pp_added - call.n_bed

\* C31: the panel outer loop terminates for every sequence of outcomes of
\* add_next_primerpair: it stops as soon as max_amplicons pairs have been
\* added or an outcome other than ADDED_PRIMERPAIR is returned, and it never
\* adds more than max_amplicons pairs.
C31_StopsOnAnyOtherOutcome ==
    /\ AddedByLoop <= call.maxamplicons
    /\ (ret \in PanelReturn \ {"ADDED_PRIMERPAIR"}) => phase = "DONE"

\* the loop is left under every fair schedule
C31_Terminates == <>(phase = "DONE")

\* what the loop does guarantee: it never adds more than maxamplicons pairs,
\* counts exactly the pairs it added, and is left on NO_PRIMERPAIRS
C31_NeverAddsMore ==
    /\ AddedByLoop = call.counter
    /\ call.counter <= call.maxamplicons
    /\ ret = "NO_PRIMERPAIRS" => phase = "DONE"

\* an outcome without a case was returned and the loop goes on
C31_WitnessLoopsOn ==
    /\ phase = "LOOP"
    /\ ret = "MOVING_TO_NEW_MSA"
    /\ call.counter < call.maxamplicons

----------------------------------------------------------------------------
(***************************************************************************)
(* concurrent_digest (core/digestion.py 709-740): the parent starts one    *)
(* multiprocessing.Process per job with args = (arg, q) and then reads the *)
(* queue twice.  out.parent is the parent's position, out.procs the state  *)
(* of the two worker processes, out.q the queue, out.got what the parent   *)
(* has read from it.                                                       *)
(***************************************************************************)
\* the loop of f_digest over findexes from position i on
RECURSIVE f_digest_from(_, _, _, _)
f_digest_from(msa_array, config, findexes, i) ==
    IF i > Len(findexes) THEN <<>>
    ELSE LET fkmer == f_digest_index(msa_array, config, findexes[i], config.min_base_freq)
             rest == f_digest_from(msa_array, config, findexes, i + 1)
         IN  IF "seqs" \in DOMAIN fkmer /\ fkmer.seqs # {} THEN <<fkmer>> \o rest ELSE rest

f_digest(msa_array, config, findexes, logger) == f_digest_from(msa_array, config, findexes, 1)

RECURSIVE r_digest_from(_, _, _, _)
r_digest_from(msa_array, config, rindexes, i) ==
    IF i > Len(rindexes) THEN <<>>
    ELSE LET rkmer == r_digest_index(msa_array, config, rindexes[i], config.min_base_freq)
             rest == r_digest_from(msa_array, config, rindexes, i + 1)
         IN  IF "seqs" \in DOMAIN rkmer /\ rkmer.seqs # {} THEN <<rkmer>> \o rest ELSE rest

r_digest(msa_array, config, rindexes, logger) == r_digest_from(msa_array, config, rindexes, 1)

\* Process.run: self._target(*self._args).  Both jobs take four positional
\* parameters without defaults; any other number of arguments is a TypeError
\* raised in the worker.  The value a job returns is dropped by Process.run.
process_run(job, args) ==
    IF Len(args) # 4 THEN "TypeError"
    ELSE "exited"

jobs == <<"f_digest", "r_digest">>

\* args of concurrent_digest: one 4-tuple per job
job_args(msa_array, config, findexes, rindexes) ==
    << <<msa_array, config, findexes, "None">>, <<msa_array, config, rindexes, "None">> >>

ConcurrentArrays == { <<row, row>> : row \in DigestBaseRows }
IndexLists == { <<2>>, <<2, 3>>, <<3, 2>> }

InitConcurrent ==
    /\ NoScheme
    /\ cfg \in { c \in DigestConfigs : c.primer_tm_max = 11 /\ ~c.ignore_n }
    /\ db = {}
    /\ \E msa_array \in ConcurrentArrays, findexes \in IndexLists, rindexes \in IndexLists :
          call = [msa_array |-> msa_array, findexes |-> findexes, rindexes |-> rindexes,
                  parent |-> "start", procs |-> <<"none", "none">>, q |-> <<>>, got |-> <<>>]

ConcurrentVars == <<cfg, db, dimers, msas, pools, matches, current_pool, last_pp_added,
                    cur, pre, out>>

\* p = mp.Process(target=job, args=(arg, q)); p.start(), for the next job
ProcessStart ==
    /\ call.parent = "start"
    /\ \E i \in 1..2 :
          /\ call.procs[i] = "none"
          /\ \A j \in 1..(i - 1) : call.procs[j] # "none"
          /\ call' = [call EXCEPT !.procs[i] = "started",
                                  !.parent = IF i = 2 THEN "get" ELSE "start"]
    /\ ret' = "Process.start"
    /\ UNCHANGED <<phase>>
    /\ UNCHANGED ConcurrentVars

\* a started worker runs its target with the arguments (arg, q)
ProcessRun ==
    /\ \E i \in 1..2 :
          /\ call.procs[i] = "started"
          /\ LET arg == job_args(call.msa_array, cfg, call.findexes, call.rindexes)[i]
             IN  call' = [call EXCEPT !.procs[i] = process_run(jobs[i], <<arg, "q">>)]
    /\ ret' = "Process.run"
    /\ UNCHANGED <<phase>>
    /\ UNCHANGED ConcurrentVars

\* q.get(): takes the head of the queue, or blocks while the queue is empty
QueueGet ==
    /\ call.parent \in {"get", "blocked"}
    /\ phase = "CALL"
    /\ IF call.q # <<>>
       THEN /\ call' = [call EXCEPT !.got = Append(@, Head(call.q)), !.q = Tail(@),
                                    !.parent = "get"]
            /\ phase' = IF Len(call.got) = 1 THEN "DONE" ELSE "CALL"
       ELSE /\ call.parent = "get"
            /\ call' = [call EXCEPT !.parent = "blocked"]
            /\ UNCHANGED phase
    /\ ret' = "Queue.get"
    /\ UNCHANGED ConcurrentVars

NextConcurrent == ProcessStart \/ ProcessRun \/ QueueGet

SpecConcurrent == InitConcurrent /\ [][NextConcurrent]_vars /\ WF_vars(NextConcurrent)

\* C32: the parallel digestion (concurrent_digest) terminates and returns the
\* forward-kmer list first and the reverse-kmer list second, each in
\* anchor-column order, for every interleaving and completion order of the
\* two worker processes.
C32_ReturnsForwardThenReverse ==
    /\ <>(phase = "DONE")
    /\ [](phase = "DONE" =>
            call.got = << f_digest(call.msa_array, cfg, call.findexes, "None"),
                          r_digest(call.msa_array, cfg, call.rindexes, "None") >>)

\* nothing is ever put on the queue
C32_QueueStaysEmpty == call.q = <<>> /\ call.got = <<>>

\* both workers have ended and the parent waits on the empty queue
C32_WitnessBlocked ==
    /\ call.parent = "blocked"
    /\ call.procs = <<"TypeError", "TypeError">>
    /\ call.q = <<>>

----------------------------------------------------------------------------
(***************************************************************************)
(* The per-MSA state machine that drives the solver: add_first, then       *)
(* try_overlap; on failure try_backtrack (if call.backtrack); on failure   *)
(* try_walk; on failure try_circular (if call.circular); on failure        *)
(* TERMINAL, and START for the next MSA.  call.step is the operation the   *)
(* driver calls next.                                                      *)
(***************************************************************************)
InitDriver ==
    /\ cfg \in Configs
    /\ db \in { d \in SUBSET DbUniverse : Cardinality(d) <= MaxDbEntries }
    /\ dimers \in DimerChoices \cup CrowdedDimers
    /\ (dimers \in CrowdedDimers) => (cfg.npools = 1 /\ db = {})
    /\ \E R \in RColChoices :
          msas = << MSA(0, FKmersAt(FCols), RKmersAt(R)),
                    MSA(1, FKmersAt({4, 6}), RKmersAt({7, 8})) >>
    /\ pools = SchemeInit(cfg.npools).pools
    /\ matches = SchemeInit(cfg.npools).matches
    /\ current_pool = 0
    /\ last_pp_added = <<>>
    /\ cur = -1
    /\ phase = "START"
    /\ ret = "None"
    /\ pre = SchemeInit(cfg.npools)
    /\ call \in [backtrack : BOOLEAN, circular : BOOLEAN, step : {"add_first"}]
    /\ out = {}

\* the outcomes that placed a pair
Placed(outcome) ==
    outcome \in {"ADDED_FIRST_PRIMERPAIR", "ADDED_OL_PRIMERPAIR", "ADDED_BACKTRACKED",
                 "ADDED_WALK_PRIMERPAIR", "ADDED_CIRULAR"}

\* the solver state after an operation that returned r, the driver going on
\* with the operation step; out collects the solver states the driver has
\* left behind after a placement
DriverBecomes(r, step) ==
    /\ pools' = r.s.pools
    /\ matches' = r.s.matches
    /\ current_pool' = r.s.current_pool
    /\ last_pp_added' = r.s.last_pp_added
    /\ ret' = r.ret
    /\ pre' = Scheme
    /\ call' = [call EXCEPT !.step = step]
    /\ out' = IF Placed(ret) THEN out \cup {<<Scheme, cur>>} ELSE out
    /\ UNCHANGED <<cfg, db, dimers, msas>>

\* START -> add_first -> PLACED, for the next MSA
DriverAddFirst ==
    /\ phase \in {"START", "TERMINAL"}
    /\ cur + 1 < Len(msas)
    /\ LET r == add_first_primer_pair(Scheme, msas[cur + 2].primerpairs, cur + 1)
           added == r.ret = "ADDED_FIRST_PRIMERPAIR"
       IN  /\ DriverBecomes(r, IF added THEN "try_overlap" ELSE "add_first")
           /\ phase' = IF added THEN "PLACED" ELSE "TERMINAL"
    /\ cur' = cur + 1

\* PLACED -> try_overlap -> PLACED, on failure try_backtrack or try_walk
DriverOverlap ==
    /\ phase = "PLACED"
    /\ call.step = "try_overlap"
    /\ LET r == try_ol_primerpairs(Scheme, msas[cur + 1].primerpairs, cur)
       IN  DriverBecomes(r, IF r.ret = "ADDED_OL_PRIMERPAIR" THEN "try_overlap"
                            ELSE IF call.backtrack THEN "try_backtrack" ELSE "try_walk")
    /\ UNCHANGED <<cur, phase>>

\* try_backtrack -> PLACED, on failure try_walk
DriverBacktrack ==
    /\ phase = "PLACED"
    /\ call.step = "try_backtrack"
    /\ LET r == try_backtrack(Scheme, msas[cur + 1].primerpairs, cur)
       IN  /\ DriverBecomes(r, IF r.ret = "ADDED_BACKTRACKED" THEN "try_overlap"
                               ELSE "try_walk")
           /\ phase' = IF r.ret = "RAISED" THEN "RAISED" ELSE "PLACED"
    /\ UNCHANGED cur

\* try_walk -> PLACED, on failure try_circular or TERMINAL
DriverWalk ==
    /\ phase = "PLACED"
    /\ call.step = "try_walk"
    /\ LET r == try_walk_primerpair(Scheme, msas[cur + 1].primerpairs, cur)
           added == r.ret = "ADDED_WALK_PRIMERPAIR"
       IN  /\ DriverBecomes(r, IF added THEN "try_overlap"
                               ELSE IF call.circular THEN "try_circular" ELSE "add_first")
           /\ phase' = IF added \/ call.circular THEN "PLACED" ELSE "TERMINAL"
    /\ UNCHANGED cur

\* try_circular -> TERMINAL
DriverCircular ==
    /\ phase = "PLACED"
    /\ call.step = "try_circular"
    /\ \E mp_pp_bool \in
            CompletionOrders(prescreen(circular_candidates(Scheme, msas[cur + 1]))) :
          LET r == try_circular(Scheme, msas[cur + 1], mp_pp_bool)
          IN  /\ DriverBecomes(r, "add_first")
              /\ phase' = IF r.ret = "RAISED" THEN "RAISED" ELSE "TERMINAL"
    /\ UNCHANGED cur

NextDriver ==
    DriverAddFirst \/ DriverOverlap \/ DriverBacktrack \/ DriverWalk \/ DriverCircular

SpecDriver == InitDriver /\ [][NextDriver]_vars

\* C33: driven by the per-MSA state machine over a finite candidate list, the
\* solver reaches TERMINAL after finitely many operations: there is no
\* infinite sequence of successful placements.  The driver is deterministic
\* between placements, so a placement that brings the solver back to a state
\* it has already left after a placement is repeated for ever.
C33_NoPlacementRepeats == ~(Placed(ret) /\ phase = "PLACED" /\ <<Scheme, cur>> \in out)

\* every placement but the one of try_backtrack into an emptied pool makes
\* the stack longer
C33_PlacementsGrowStack ==
    (Placed(ret) /\ Len(last_pp_added) <= Len(pre.last_pp_added)) =>
        /\ ret = "ADDED_BACKTRACKED"
        /\ Len(last_pp_added) = Len(pre.last_pp_added)
        /\ Len(pools[Top(Scheme).pool]) = 1

----------------------------------------------------------------------------
(***************************************************************************)
(* PrimerPair.set_amplicon_number and PrimerPair.set_pool_number           *)
(* (core/classes.py 170-174, primal_digest/classes.py 200-204; the two     *)
(* files hold the same text).  call.pp is the pair before the call,        *)
(* call.arg the argument, out the pair after it.                           *)
(***************************************************************************)
MaxNumber == 3

set_amplicon_number(pp, amplicon_number) == [pp EXCEPT !.amplicon_number = amplicon_number]

\* self.amplicon_number = pool_number
set_pool_number(pp, pool_number) == [pp EXCEPT !.amplicon_number = pool_number]

\* pairs as __init__ leaves them (-1, -1) and as a solver has numbered them
InitSetters ==
    /\ NoScheme
    /\ cfg = DefaultCfg
    /\ db = {}
    /\ \E amplicon_number \in -1..MaxNumber, pool \in -1..MaxPools, arg \in 0..MaxNumber :
          call = [pp |-> [PrimerPair(FKmer(2, {AC}), RKmer(5, {CA}), 0, "list")
                            EXCEPT !.amplicon_number = amplicon_number, !.pool = pool],
                  arg |-> arg]

SetAmpliconNumber ==
    /\ phase = "CALL"
    /\ Returns("set_amplicon_number", set_amplicon_number(call.pp, call.arg))

SetPoolNumber ==
    /\ phase = "CALL"
    /\ Returns("set_pool_number", set_pool_number(call.pp, call.arg))

NextSetters == SetAmpliconNumber \/ SetPoolNumber

SpecSetters == InitSetters /\ [][NextSetters]_vars

\* every field but the named one is as before the call
OnlyChanged(field) ==
    \A f \in DOMAIN call.pp : f # field => out[f] = call.pp[f]

\* C34: set_amplicon_number(n) sets the pair's amplicon_number to n and leaves
\* its pool unchanged; set_pool_number(p) sets the pair's pool to p and leaves
\* its amplicon_number unchanged.
C34_SettersSetTheirField ==
    /\ ret = "set_amplicon_number" =>
          out.amplicon_number = call.arg /\ out.pool = call.pp.pool
    /\ ret = "set_pool_number" =>
          out.pool = call.arg /\ out.amplicon_number = call.pp.amplicon_number

\* the half about set_amplicon_number
C34_SetAmpliconNumber ==
    ret = "set_amplicon_number" =>
        out.amplicon_number = call.arg /\ OnlyChanged("amplicon_number")

\* what set_pool_number does: it is set_amplicon_number under another name
C34_SetPoolNumberSetsAmpliconNumber ==
    ret = "set_pool_number" => out = set_amplicon_number(call.pp, call.arg)

\* set_pool_number was called with a pool other than the pair's
C34_WitnessPool ==
    /\ ret = "set_pool_number"
    /\ call.arg # call.pp.pool
    /\ call.arg # call.pp.amplicon_number

----------------------------------------------------------------------------
(***************************************************************************)
(* walk_right and walk_left call by call (core/digestion.py 174-331).      *)
(* call.stack holds the calls still to be made, the next one first, each   *)
(* with its col_index_right, col_index_left and seq_str; call.results is   *)
(* the list wrap_walk has collected so far; call.last is the call that was *)
(* made last, with the column it read and the base it added.               *)
(***************************************************************************)
Frame(col_index_right, col_index_left, seq_str) ==
    [col_index_right |-> col_index_right, col_index_left |-> col_index_left,
     seq_str |-> seq_str]

\* if col_index_right - col_index_left > config.primer_max_walk
walks_too_far_late(col_index_right, col_index_left, config) ==
    col_index_right - col_index_left > config.primer_max_walk

\* if col_index_right - col_index_left >= config.primer_max_walk
walks_too_far(col_index_right, col_index_left, config) ==
    col_index_right - col_index_left >= config.primer_max_walk

Ended(outcome, seq_str) ==
    [outcome |-> outcome, seq_str |-> seq_str, col_read |-> 0 - 1, cell |-> "",
     new_base |-> "", calls |-> <<>>]

\* one call of walk_right up to its recursive calls
walk_right_call(array, col_index_right, col_index_left, row_index, seq_str, config) ==
    IF calc_tm(seq_str) >= config.primer_tm_min
    THEN Ended("success", seq_str)
    ELSE IF \/ col_index_right >= Len(array[1]) - 1
            \/ col_index_left >= Len(array[1]) - 1
    THEN Ended("WalksOut", seq_str)
    ELSE IF walks_too_far(col_index_right, col_index_left, config)
    THEN Ended("WalksTooFar", seq_str)
    ELSE LET cell == array[row_index + 1][col_index_right + 1]
             new_base == IF cell = ""
                         THEN get_most_common_base(array, col_index_right + 1)
                         ELSE cell
             new_string == StripGaps(seq_str \o Chars(new_base))
         IN  IF "N" \in Range(new_string) \/ expand_ambs({new_string}) = {}
             THEN Ended("ContainsInvalidBase", seq_str)
             ELSE LET exp_new_string == IterationOrder(expand_ambs({new_string}))
                  IN  [outcome |-> "calls", seq_str |-> seq_str,
                       col_read |-> col_index_right, cell |-> cell, new_base |-> new_base,
                       calls |-> [n \in 1..Len(exp_new_string) |->
                                    Frame(col_index_right + 1, col_index_left,
                                          exp_new_string[n])]]

\* one call of walk_left up to its recursive calls
walk_left_call(array, col_index_right, col_index_left, row_index, seq_str, config) ==
    IF col_index_left <= 0 \/ col_index_right <= 0
    THEN Ended("WalksOut", seq_str)
    ELSE IF calc_tm(seq_str) >= config.primer_tm_min
    THEN Ended("success", seq_str)
    ELSE IF walks_too_far(col_index_right, col_index_left, config)
    THEN Ended("WalksTooFar", seq_str)
    ELSE LET cell == array[row_index + 1][col_index_left - 1 + 1]
             new_base == IF cell = ""
                         THEN get_most_common_base(array, col_index_left - 1)
                         ELSE cell
             new_string == StripGaps(Chars(new_base) \o seq_str)
         IN  IF "N" \in Range(new_string) \/ expand_ambs({new_string}) = {}
             THEN Ended("ContainsInvalidBase", seq_str)
             ELSE LET exp_new_string == IterationOrder(expand_ambs({new_string}))
                  IN  [outcome |-> "calls", seq_str |-> seq_str,
                       col_read |-> col_index_left - 1, cell |-> cell, new_base |-> new_base,
                       calls |-> [n \in 1..Len(exp_new_string) |->
                                    Frame(col_index_right, col_index_left - 1,
                                          exp_new_string[n])]]

WalkBaseRows == { row \in DigestBaseRows : row[1] = "A" /\ row[MaxCols] = "A" }

\* two rows that differ in at most one cell
WalkArrays ==
    { <<row, [row EXCEPT ![i] = c]>> : <<row, i, c>> \in WalkBaseRows \X (1..MaxCols) \X Cells }

WalkConfigs ==
    { [primer_size_min |-> 2, primer_tm_min |-> 8, primer_tm_max |-> 11,
       primer_max_walk |-> w, min_base_freq |-> <<0, 1>>, ignore_n |-> FALSE] : w \in {2, 3} }

\* the first call of r_digest_to_count for a row and a start column
FirstRight(array, row_index, start_col, config) ==
    Frame(start_col + config.primer_size_min, start_col,
          JoinCells(SubSeq(array[row_index + 1], start_col + 1,
                           start_col + config.primer_size_min)))

\* the first call of f_digest_to_count for a row and an end column
FirstLeft(array, row_index, end_col, config) ==
    Frame(end_col, end_col - config.primer_size_min,
          JoinCells(SubSeq(array[row_index + 1], end_col - config.primer_size_min + 1,
                           end_col)))

\* the digest reaches the walk: the anchor cell is no gap, the start string is
\* not empty and holds no N, and the first slice is inside the array
InitWalk ==
    /\ NoScheme
    /\ cfg \in WalkConfigs
    /\ db = {}
    /\ \E array \in WalkArrays, row_index \in 0..1, col \in 0..(MaxCols - 1),
          walk \in {"walk_right", "walk_left"} :
          LET first == IF walk = "walk_right"
                       THEN FirstRight(array, row_index, col, cfg)
                       ELSE FirstLeft(array, row_index, col, cfg)
          IN  /\ IF walk = "walk_right"
                 THEN col + cfg.primer_size_min < MaxCols
                 ELSE col - cfg.primer_size_min >= 0
              /\ array[row_index + 1][col + 1] # "-"
              /\ first.seq_str # << >>
              /\ "N" \notin Range(first.seq_str)
              /\ call = [array |-> array, row_index |-> row_index, col |-> col,
                         walk |-> walk, first |-> first,
                         stack |-> <<first>>, results |-> <<>>,
                         last |-> Ended("none", << >>)]

WalkVars == <<cfg, db, dimers, msas, pools, matches, current_pool, last_pp_added,
              cur, pre, out>>

\* the state after the call made of the frame on top of the stack
AfterCall(made) ==
    /\ call' = [call EXCEPT
                  !.stack = made.calls \o Tail(call.stack),
                  !.results = IF made.outcome = "calls" THEN call.results
                              ELSE IF made.outcome = "success"
                              THEN Append(call.results, made.seq_str)
                              ELSE Append(call.results, <<made.outcome>>),
                  !.last = [made EXCEPT !.calls = Head(call.stack)]]
    /\ phase' = IF made.calls \o Tail(call.stack) = <<>> THEN "DONE" ELSE "CALL"
    /\ UNCHANGED WalkVars

WalkRight ==
    /\ phase = "CALL"
    /\ call.walk = "walk_right"
    /\ LET f == Head(call.stack)
       IN  AfterCall(walk_right_call(call.array, f.col_index_right, f.col_index_left,
                                     call.row_index, f.seq_str, cfg))
    /\ ret' = "walk_right"

WalkLeft ==
    /\ phase = "CALL"
    /\ call.walk = "walk_left"
    /\ LET f == Head(call.stack)
       IN  AfterCall(walk_left_call(call.array, f.col_index_right, f.col_index_left,
                                    call.row_index, f.seq_str, cfg))
    /\ ret' = "walk_left"

NextWalk == WalkRight \/ WalkLeft

\* a call that has been made runs to its end
SpecWalk == InitWalk /\ [][NextWalk]_vars /\ WF_vars(NextWalk)

Span(f) == f.col_index_right - f.col_index_left

\* the call by call run collects what the recursive definition returns
WalkAgrees ==
    phase = "DONE" =>
        call.results =
            wrap_walk(IF call.walk = "walk_right"
                      THEN walk_right(call.array, call.first.col_index_right,
                                      call.first.col_index_left, call.row_index,
                                      call.first.seq_str, cfg)
                      ELSE walk_left(call.array, call.first.col_index_right,
                                     call.first.col_index_left, call.row_index,
                                     call.first.seq_str, cfg))

\* C37: every walk_left and walk_right call terminates, and along every
\* branch the walked span col_index_right - col_index_left never exceeds
\* primer_max_walk before the branch ends in a success string or in one of
\* WALKS_OUT, WALKS_TOO_FAR, CONTAINS_INVALID_BASE.
C37_WalksEndWithinMaxWalk ==
    /\ <>(phase = "DONE")
    /\ [](/\ \A i \in 1..Len(call.stack) : Span(call.stack[i]) <= cfg.primer_max_walk
          /\ call.last.outcome # "none" =>
                /\ Span(call.last.calls) <= cfg.primer_max_walk
                /\ call.last.outcome \in {"calls", "success", "WalksOut", "WalksTooFar",
                                          "ContainsInvalidBase"})

\* a branch was walked to the full primer_max_walk and ended there
C37_Witness ==
    /\ phase = "DONE"
    /\ call.last.outcome = "WalksTooFar"
    /\ Span(call.last.calls) = cfg.primer_max_walk
    /\ Span(call.first) < cfg.primer_max_walk

\* the call made last had a string with Tm >= primer_tm_min
LastTmReached == calc_tm(call.last.seq_str) >= cfg.primer_tm_min

\* C38: the forward and reverse walks treat the alignment edge symmetrically:
\* a branch whose current string already has Tm >= primer_tm_min is recorded
\* as a success string in both walk_left and walk_right, also when the walk
\* index has reached the first or last column; WALKS_OUT is raised only for a
\* branch that still needs another base.
C38_SuccessAtTheEdge ==
    call.last.outcome # "none" =>
        /\ LastTmReached => call.last.outcome = "success"
        /\ call.last.outcome = "WalksOut" => ~LastTmReached

\* walk_right does so
C38_RightSuccessAtTheEdge ==
    (call.last.outcome # "none" /\ call.walk = "walk_right") =>
        /\ LastTmReached => call.last.outcome = "success"
        /\ call.last.outcome = "WalksOut" => ~LastTmReached

\* walk_left raises WalksOut on the first column whatever the string
C38_LeftWalksOutOnFirstColumn ==
    (call.last.outcome # "none" /\ call.walk = "walk_left") =>
        /\ call.last.calls.col_index_left <= 0 => call.last.outcome = "WalksOut"
        /\ (call.last.calls.col_index_left > 0 /\ LastTmReached) =>
              call.last.outcome = "success"

\* walk_right has recorded a success string with its index on the last column
C38_WitnessRightLastColumn ==
    /\ call.walk = "walk_right"
    /\ call.last.outcome = "success"
    /\ call.last.calls.col_index_right = MaxCols - 1

\* the call made last read an empty cell
ReadEmptyCell == call.last.outcome # "none" /\ call.last.col_read >= 0 /\ call.last.cell = ""

\* C39: when the next cell of a row is empty (truncated row), both walk_left
\* and walk_right extend the string with the majority base of that same
\* column, i.e. the column whose cell was read for the row.
C39_MajorityOfColumnRead ==
    ReadEmptyCell => call.last.new_base = get_most_common_base(call.array, call.last.col_read)

\* walk_left does so
C39_LeftMajorityOfColumnRead ==
    (ReadEmptyCell /\ call.walk = "walk_left") =>
        call.last.new_base = get_most_common_base(call.array, call.last.col_read)

\* walk_right takes the majority base of the column after the one it read
C39_RightMajorityOfNextColumn ==
    (ReadEmptyCell /\ call.walk = "walk_right") =>
        call.last.new_base = get_most_common_base(call.array, call.last.col_read + 1)

\* walk_right has filled an empty cell with a base its column does not hold
C39_WitnessRight ==
    /\ ReadEmptyCell
    /\ call.walk = "walk_right"
    /\ call.last.new_base # get_most_common_base(call.array, call.last.col_read)

----------------------------------------------------------------------------
(* The last-added stack and the pools                                      *)

\* the stack restricted to the pairs whose pool attribute is p
StackOfPool(S, p) ==
    LET InPool(pp) == pp.pool = p
    IN  SelectSeq(S.last_pp_added, InPool)

\* the same PrimerPair object is on the stack twice
PlacedTwice(S) ==
    \E i, j \in 1..Len(S.last_pp_added) :
        i < j /\ SameObject(S.last_pp_added[i], S.last_pp_added[j])

\* every stacked pair names a pool, and each pool is the stack restricted to
\* the pairs of that pool, in stack order
PoolsAreStackByPool(S) ==
    /\ \A i \in 1..Len(S.last_pp_added) : S.last_pp_added[i].pool \in PoolIndexes
    /\ \A p \in PoolIndexes : S.pools[p] = StackOfPool(S, p)

\* C40: after any sequence of solver operations the last-added stack and the
\* pools hold the same pairs, each placed pair once in each; every stacked
\* pair p is a member of pools[p.pool]; each pool is in stack order; and so
\* remove_last_primer_pair removes from the pool the pair it pops from the
\* stack, leaving a stack and pools that agree again.
C40_StackAndPoolsAgree ==
    /\ PoolsAreStackByPool(Scheme)
    /\ ~PlacedTwice(Scheme)
    /\ last_pp_added # <<>> =>
          /\ Last(pools[Top(Scheme).pool]) = Top(Scheme)
          /\ PoolsAreStackByPool(remove_last_primer_pair(Scheme))

\* a backtrack has popped a pair and placed another while both pools hold pairs
C40_Witness ==
    /\ ret = "ADDED_BACKTRACKED"
    /\ cfg.npools = 2
    /\ Len(last_pp_added) >= 2
    /\ \A p \in PoolIndexes : pools[p] # <<>>

====
